---- MODULE Spec2Model ----
(***************************************************************************)
(* Deployment executor of cicd-thing (package deployment): Deploy, the     *)
(* worker pool, the per-application lock table, the command pipeline with  *)
(* its deadline and rollback, and the result channel.                      *)
(*                                                                         *)
(* Strings are sequences of one-character strings, so that Split,          *)
(* TrimSpace and ReplaceAll are computed as the Go library computes them.  *)
(***************************************************************************)
EXTENDS Integers, Sequences, FiniteSets, TLC

\* ------------------------------------------------------------------ bounds
\* Number of Deploy calls issued in one behaviour.
MaxReq == 3
\* Largest configured concurrency_limit explored.
MaxConcurrency == 2
\* Capacity of the admission queue (make(chan *Request, 100), scaled down).
QueueCap == 2
\* Capacity of the result channel (make(chan *Result, 100), scaled down).
ResultsCap == 1
MaxTicks == 1

Reqs == 1..MaxReq

\* ------------------------------------------------------------- Go strings
\* strings.HasPrefix(s[i..], sep)
MatchAt(s, i, sep) ==
    /\ i + Len(sep) - 1 <= Len(s)
    /\ \A k \in 1..Len(sep) : s[i + k - 1] = sep[k]

\* Index of the leftmost occurrence of sep in s at or after position i, 0 if none.
RECURSIVE IndexFrom(_, _, _)
IndexFrom(s, i, sep) ==
    IF i + Len(sep) - 1 > Len(s) THEN 0
    ELSE IF MatchAt(s, i, sep) THEN i
    ELSE IndexFrom(s, i + 1, sep)

\* strings.Split(s, sep), sep non-empty: leftmost non-overlapping separators,
\* always at least one segment.
RECURSIVE Split(_, _)
Split(s, sep) ==
    LET i == IndexFrom(s, 1, sep) IN
    IF i = 0 THEN <<s>>
    ELSE <<SubSeq(s, 1, i - 1)>> \o Split(SubSeq(s, i + Len(sep), Len(s)), sep)

\* strings.ReplaceAll(s, old, new), old non-empty.
RECURSIVE ReplaceAll(_, _, _)
ReplaceAll(s, old, new) ==
    LET i == IndexFrom(s, 1, old) IN
    IF i = 0 THEN s
    ELSE SubSeq(s, 1, i - 1) \o new
         \o ReplaceAll(SubSeq(s, i + Len(old), Len(s)), old, new)

\* strings.TrimSpace on the characters of the model (the blank is the only
\* white-space character that occurs).
RECURSIVE TrimLeft(_)
TrimLeft(s) ==
    IF s # <<>> /\ Head(s) = " " THEN TrimLeft(Tail(s)) ELSE s

RECURSIVE TrimRight(_)
TrimRight(s) ==
    IF s # <<>> /\ s[Len(s)] = " " THEN TrimRight(SubSeq(s, 1, Len(s) - 1)) ELSE s

\* A trim of the leading white space only.
TrimSpaceLeftOnly(s) == TrimLeft(s)

TrimSpace(s) == TrimRight(TrimLeft(s))

\* ------------------------------------------------------------ the mapper
\* Mapper.GetAppName
GetAppName(repoFullName) ==
    LET parts == Split(repoFullName, <<"/">>) IN
    IF Len(parts) >= 2 THEN parts[2] ELSE repoFullName

\* ---------------------------------------------------------- configuration
Slash == <<"/">>
AndAnd == <<"&", "&">>
Placeholder == <<"a", "p", "p", "n", "a", "m", "e">>

RepoA == <<"o", "/", "a">>
RepoB == <<"o", "/", "b">>
Repos == {RepoA, RepoB}
AppA == <<"a">>
AppB == <<"b">>

\* "x && y"
CmdXY == <<"x", " ", "&", "&", " ", "y">>
\* "z appname"
CmdDefault == <<"z", " ">> \o Placeholder
\* "r"
CmdRollback == <<"r">>
EmptyStr == <<>>
EmptyMap == [k \in {} |-> EmptyStr]

\* The command sections of config.Config that are explored: a per-app entry
\* with a rollback and no default template, and a default template alone.
CommandSections ==
    { [Commands |-> [k \in {AppA} |-> CmdXY],
       DefaultCommands |-> EmptyStr,
       RollbackCommands |-> [k \in {AppA} |-> CmdRollback]],
      [Commands |-> EmptyMap,
       DefaultCommands |-> CmdDefault,
       RollbackCommands |-> EmptyMap] }

\* config.Config, the fields the executor reads.
Configs ==
    { [ConcurrencyLimit |-> n, DryRun |-> d,
       Commands |-> s.Commands, DefaultCommands |-> s.DefaultCommands,
       RollbackCommands |-> s.RollbackCommands] :
         n \in 1..MaxConcurrency, d \in BOOLEAN, s \in CommandSections }

\* "z appname&&w && v"
CmdThree == <<"z", " ">> \o Placeholder \o <<"&", "&", "w", " ", "&", "&", " ", "v">>

\* " && " and "&&": command strings without a command.
CmdBlank == <<" ">> \o AndAnd \o <<" ">>

\* The command sections under which the command pipeline is explored: a
\* default template of three commands without rollback, the per-app entry
\* with a rollback, and per-app entries without a command (one of them with
\* a rollback).
PipelineSections ==
    { [Commands |-> EmptyMap,
       DefaultCommands |-> CmdThree,
       RollbackCommands |-> EmptyMap],
      [Commands |-> [k \in {AppA} |-> CmdXY],
       DefaultCommands |-> EmptyStr,
       RollbackCommands |-> [k \in {AppA} |-> CmdRollback]],
      [Commands |-> [k \in {AppA, AppB} |-> IF k = AppA THEN CmdBlank ELSE EmptyStr],
       DefaultCommands |-> CmdDefault,
       RollbackCommands |-> [k \in {AppA} |-> CmdRollback]] }

PipelineConfigs ==
    { [ConcurrencyLimit |-> n, DryRun |-> d,
       Commands |-> s.Commands, DefaultCommands |-> s.DefaultCommands,
       RollbackCommands |-> s.RollbackCommands] :
         n \in 1..MaxConcurrency, d \in BOOLEAN, s \in PipelineSections }

\* ----------------------------------------------------------------- status
StatusStarted == "STARTED"
StatusSuccess == "SUCCESS"
StatusFailed == "FAILED"
StatusTimeout == "TIMEOUT"
StatusRollback == "ROLLBACK"
StatusCancelled == "CANCELLED"

\* Error texts of the executor.
ErrLock == "Failed to acquire deployment lock"
ErrTimedOut == "Deployment timed out"
ErrCommandFailed == "Command failed"
ErrRollbackFailed == "Rollback failed"
DryRunOutput == "DRY RUN: Commands would be executed"
RollbackOutput == "Rollback executed successfully"

\* Exit codes a failing subprocess reports; a process that was killed by
\* its context (or never started) has ProcessState.ExitCode() = -1.
FailCodes == {1, 2}
\* The environments of the executor's full interleavings have commands that
\* fail with one code.
OneFailCode == {1}
KilledCode == 0 - 1

\* ------------------------------------------------------ command pipeline
\* parseCommands: the trimmed, non-empty "&&"-separated segments, in order.
RECURSIVE KeepTrimmed(_)
KeepTrimmed(segs) ==
    IF segs = <<>> THEN <<>>
    ELSE LET trimmed == TrimSpace(Head(segs)) IN
         (IF trimmed # <<>> THEN <<trimmed>> ELSE <<>>) \o KeepTrimmed(Tail(segs))

\* parseCommands that keeps the segments that are empty after trimming.
parseCommandsKeepEmpty(commandStr) ==
    LET segs == Split(commandStr, AndAnd) IN
    [i \in DOMAIN segs |-> TrimSpace(segs[i])]

\* parseCommands that splits at every '&'.
parseCommandsOnAmp(commandStr) == KeepTrimmed(Split(commandStr, <<"&">>))

parseCommands(commandStr) == KeepTrimmed(Split(commandStr, AndAnd))

\* prepareCommands that takes the default template without testing it for
\* the empty string.
prepareCommandsUnchecked(c, repository) ==
    LET appName == GetAppName(repository) IN
    IF appName \in DOMAIN c.Commands
    THEN [err |-> FALSE, Commands |-> parseCommands(c.Commands[appName])]
    ELSE [err |-> FALSE,
          Commands |-> parseCommands(ReplaceAll(c.DefaultCommands, Placeholder, appName))]

\* prepareCommands that prefers a non-empty default template to the
\* application's own entry.
prepareCommandsDefaultFirst(c, repository) ==
    LET appName == GetAppName(repository) IN
    IF c.DefaultCommands # EmptyStr
    THEN [err |-> FALSE,
          Commands |-> parseCommands(ReplaceAll(c.DefaultCommands, Placeholder, appName))]
    ELSE IF appName \in DOMAIN c.Commands
    THEN [err |-> FALSE, Commands |-> parseCommands(c.Commands[appName])]
    ELSE [err |-> TRUE, Commands |-> <<>>]

\* Executor.prepareCommands: [err, Commands] for a repository under config c.
prepareCommands(c, repository) ==
    LET appName == GetAppName(repository) IN
    IF appName \in DOMAIN c.Commands
    THEN [err |-> FALSE, Commands |-> parseCommands(c.Commands[appName])]
    ELSE IF c.DefaultCommands # EmptyStr
    THEN [err |-> FALSE,
          Commands |-> parseCommands(ReplaceAll(c.DefaultCommands, Placeholder, appName))]
    ELSE [err |-> TRUE, Commands |-> <<>>]

\* GetAppName tabulated over the repositories of the model.
AppNameOf == [repository \in Repos \cup {EmptyStr} |-> GetAppName(repository)]

\* A rollback run whether or not the application has a rollback entry.
shouldRollbackAlways(c, repository) == TRUE

\* Executor.shouldRollback
shouldRollback(c, repository) == GetAppName(repository) \in DOMAIN c.RollbackCommands

\* executeDeployment that does not test the dry-run flag.
dryRunIgnored(c) == FALSE

\* executeDeployment, line 118: the global dry-run flag.
dryRun(c) == c.DryRun

\* New whose loop starts one goroutine too few (i := 1; i < limit).
NumWorkersOneLess(c) == c.ConcurrencyLimit - 1

\* New whose loop starts one goroutine too many (i <= limit).
NumWorkersOneMore(c) == c.ConcurrencyLimit + 1

\* New: one worker goroutine per unit of the concurrency limit.
NumWorkers(c) == c.ConcurrencyLimit

\* ------------------------------------------------------------------ state
VARIABLES
    cfg,        \* the configuration handed to New (read-only afterwards)
    dpc,        \* per Deploy call: position / return value
    req,        \* per Deploy call: the *Request (Repository, ID, Commands)
    env,        \* the callers, the clock and the commands: the number of Deploy
                \* calls made, whether two successive reads of the clock can
                \* return the same value, the codes a command can fail with,
                \* how far the workers' clock advances
    lastID,     \* latest value generateID read from the clock
    queue,      \* Executor.queue: the buffered channel of *Request
    locks,      \* Executor.locks: app name -> Lock
    wpc,        \* per worker: position in worker / executeDeployment
    wreq,       \* per worker: the request it dequeued (0: none)
    widx,       \* per worker: 1-based index of the command at hand
    wctx,       \* per worker: has the deployment context's deadline elapsed
    wrctx,      \* per worker: has the rollback context's deadline elapsed
    now,        \* the latest reading of the clock by time.Now() in a worker
    wtime,      \* per worker: StartTime, EndTime and Duration of the *Result
    wout,       \* per worker: runCommands' output builder
    wexit,      \* per worker: the exit statuses of the subprocesses of wstarted
                \* that have returned, in order
    result,     \* per worker: the *Result under construction
    results,    \* Executor.results: the buffered channel of *Result
    wstarted,   \* per worker: the subprocesses started for its request, in order
    handed,     \* per request: number of results handed to the send on results
    enqOrder,   \* requests in the order Deploy enqueued them
    ran,        \* requests that acquired their lock
    executed,   \* requests for which a deployment command was started
    stdout,     \* requests whose 'Results channel full' line was printed
    hook,       \* per Deploy call: the webhook request it came from, if any
    call        \* a call of one of the pure functions and what it returned

vars == <<cfg, now, wtime, env, dpc, req, lastID, queue, locks, wpc, wreq, widx, wctx, wrctx, wout, wexit,
          result, results, wstarted, handed, enqOrder, ran, executed, stdout,
          hook, call>>

Workers == DOMAIN wpc

NoRequest == [Repository |-> EmptyStr, ID |-> 0, Commands |-> <<>>]
NoResult == [Request |-> 0, Status |-> "", Output |-> <<>>, Error |-> <<>>, ExitCode |-> 0]

\* The time fields of a Result that has none set.
NoTimes == [StartTime |-> 0, EndTime |-> 0, Duration |-> 0]

\* The environments explored: every configuration under a clock that has
\* advanced between any two reads, and the dry-run configurations also under
\* a clock coarse enough for two reads to return the same value.
Environments ==
    { e \in [cfg : Configs, coarse : BOOLEAN, codes : {OneFailCode}, ticks : {0}] :
        e.coarse => e.cfg.DryRun }

\* The environments of the command pipeline: the pipeline configurations,
\* commands that fail with any of the codes.
PipelineEnvironments ==
    [cfg : PipelineConfigs, coarse : {FALSE}, codes : {FailCodes}, ticks : {0}]

\* No webhook request, no call of a pure function.
NoHook == [stage |-> "none"]
NoCall == [fn |-> "none"]

\* The executor after New(cfg) in one of the environments, before any of the
\* `calls` Deploy calls.
ExecutorInit(environments, calls) ==
    /\ \E e \in environments :
          /\ cfg = e.cfg
          /\ env = [coarse |-> e.coarse, calls |-> calls, codes |-> e.codes,
                    ticks |-> e.ticks]
    /\ dpc = [r \in Reqs |-> "new"]
    /\ req = [r \in Reqs |-> NoRequest]
    /\ lastID = 0
    /\ queue = <<>>
    /\ locks = [a \in {} |-> 0]
    /\ wpc = [w \in 1..NumWorkers(cfg) |-> "idle"]
    /\ wreq = [w \in 1..NumWorkers(cfg) |-> 0]
    /\ widx = [w \in 1..NumWorkers(cfg) |-> 0]
    /\ wctx = [w \in 1..NumWorkers(cfg) |-> FALSE]
    /\ wrctx = [w \in 1..NumWorkers(cfg) |-> FALSE]
    /\ now = 0
    /\ wtime = [w \in 1..NumWorkers(cfg) |-> NoTimes]
    /\ wout = [w \in 1..NumWorkers(cfg) |-> <<>>]
    /\ wexit = [w \in 1..NumWorkers(cfg) |-> <<>>]
    /\ result = [w \in 1..NumWorkers(cfg) |-> NoResult]
    /\ results = <<>>
    /\ wstarted = [w \in 1..NumWorkers(cfg) |-> <<>>]
    /\ handed = [r \in Reqs |-> 0]
    /\ enqOrder = <<>>
    /\ ran = {}
    /\ executed = {}
    /\ stdout = {}

\* The state after New(cfg): the executor, nothing received by the webhook
\* handler.
InitOf(environments, calls) ==
    /\ ExecutorInit(environments, calls)
    /\ hook = [r \in Reqs |-> NoHook]
    /\ call = NoCall

InitWith(calls) == InitOf(Environments, calls)

\* MaxReq Deploy calls under every environment, one call fewer where several
\* workers run subprocesses side by side (the interleavings of the command
\* pipelines of two workers are explored for every pair of requests).
Init ==
    \E e \in Environments :
        InitOf({e}, IF e.cfg.ConcurrencyLimit > 1 /\ ~e.cfg.DryRun
                    THEN MaxReq - 1 ELSE MaxReq)

\* ------------------------------------------------------------ lock table
\* A pre-check that finds every application locked.
isLockedAlways(appName) == TRUE

\* A pre-check that also counts the requests waiting in the queue.
isLockedOrQueued(appName) ==
    \/ appName \in DOMAIN locks
    \/ \E i \in DOMAIN queue : AppNameOf[req[queue[i]].Repository] = appName

\* A pre-check that never finds the lock.
isLockedNever(appName) == FALSE

\* Executor.isLocked
isLocked(appName) == appName \in DOMAIN locks

\* A lock that no longer protects the application once the rollback runs.
canAcquireDuringRollback(appName) ==
    \/ ~(appName \in DOMAIN locks)
    \/ \E w \in DOMAIN wpc :
          wpc[w] = "rollback" /\ AppNameOf[req[wreq[w]].Repository] = appName

\* acquireLock without its check of the existing entry.
canAcquireAlways(appName) == TRUE

\* Executor.acquireLock: may the entry be created
canAcquire(appName) == ~(appName \in DOMAIN locks)

\* acquireLock that files the entry under the repository's full name
\* instead of the application name.
lockAddedUnderRepository(appName, requestID) ==
    [a \in DOMAIN locks \cup {<<"o", "/">> \o appName} |->
        IF a = <<"o", "/">> \o appName
        THEN [AppName |-> appName, RequestID |-> requestID]
        ELSE locks[a]]

\* Executor.acquireLock: the table after a successful acquisition
lockAdded(appName, requestID) ==
    [a \in DOMAIN locks \cup {appName} |->
        IF a = appName THEN [AppName |-> appName, RequestID |-> requestID]
        ELSE locks[a]]

\* releaseLock that clears the whole table.
lockDeletedAll(appName) == [a \in {} |-> 0]

\* releaseLock that leaves the entry in the table.
lockKept(appName) == locks

\* Executor.releaseLock: delete(e.locks, appName)
lockDeleted(appName) == [a \in DOMAIN locks \ {appName} |-> locks[a]]

\* ----------------------------------------------------------------- Deploy
\* generateID: the clock read is the latest one or a later one.
generatedIDs ==
    {lastID + 1} \cup (IF env.coarse /\ lastID > 0 THEN {lastID} ELSE {})

\* Deploy, lines 46-51: the application name and the lock pre-check.  Calls
\* are numbered in the order in which they reach the pre-check.
DeployCheck(r, repository) ==
    /\ dpc[r] = "new"
    /\ r <= env.calls
    /\ \A q \in Reqs : q < r => (dpc[q] # "new" \/ hook[q].stage = "rejected")
    /\ req' = [req EXCEPT ![r].Repository = repository]
    /\ dpc' = [dpc EXCEPT ![r] =
                 IF isLocked(AppNameOf[repository]) THEN "locked" ELSE "checked"]
    /\ UNCHANGED <<call, hook, stdout, cfg, now, wtime, env, lastID, queue, locks, wpc, wreq, widx, wctx, wrctx, result,
                   results, handed, enqOrder, ran, wstarted, executed, wout, wexit>>

\* A send that still succeeds when the buffer already holds QueueCap requests.
queueHasRoomOffByOne == Len(queue) <= QueueCap

\* Is there room for a non-blocking send on the queue
queueHasRoom == Len(queue) < QueueCap

\* Deploy, lines 53-69: the id, the commands and the non-blocking enqueue.
DeployEnqueue(r) ==
    /\ dpc[r] = "checked"
    /\ \E id \in generatedIDs :
        LET prep == prepareCommands(cfg, req[r].Repository) IN
        /\ lastID' = id
        /\ req' = [req EXCEPT ![r].ID = id, ![r].Commands = prep.Commands]
        /\ IF prep.err
           THEN /\ dpc' = [dpc EXCEPT ![r] = "cfgerr"]
                /\ UNCHANGED <<queue, enqOrder>>
           ELSE IF queueHasRoom
           THEN /\ dpc' = [dpc EXCEPT ![r] = "ok"]
                /\ queue' = Append(queue, r)
                /\ enqOrder' = Append(enqOrder, r)
           ELSE /\ dpc' = [dpc EXCEPT ![r] = "full"]
                /\ UNCHANGED <<queue, enqOrder>>
    /\ UNCHANGED <<call, hook, stdout, cfg, now, wtime, env, locks, wpc, wreq, widx, wctx, wrctx, result,
                   results, handed, ran, wstarted, executed, wout, wexit>>

\* ----------------------------------------------------------------- worker
\* The application name executeDeployment computes for request r.
appOf(r) == AppNameOf[req[r].Repository]

\* A receive that takes the request enqueued last.
queueReceiveLast(q) == [req |-> q[Len(q)], rest |-> SubSeq(q, 1, Len(q) - 1)]

\* A receive from a buffered channel: the oldest element, and the buffer
\* without it.
queueReceive(q) == [req |-> Head(q), rest |-> Tail(q)]

\* worker, line 79: the receive from the queue.
Dequeue(w) ==
    /\ wpc[w] = "idle"
    /\ queue # <<>>
    /\ wreq' = [wreq EXCEPT ![w] = queueReceive(queue).req]
    /\ queue' = queueReceive(queue).rest
    /\ wpc' = [wpc EXCEPT ![w] = "acquire"]
    /\ UNCHANGED <<call, hook, stdout, cfg, now, wtime, env, dpc, req, lastID, locks, widx, wctx, wrctx, result,
                   results, handed, enqOrder, ran, wstarted, executed, wout, wexit>>

\* executeDeployment that registers the deferred releaseLock before it tests
\* the acquisition, so that it also runs on the failure return.
afterLockFailureRelease == "release"

\* executeDeployment, lines 97-105: the failure return comes before the
\* defer of line 106, so the worker goes straight to the send of the result.
afterLockFailure == "publish"

\* What a read of the clock can return: the latest reading or a later one.
ClockReadings == now..(IF env.ticks > now THEN env.ticks ELSE now)

\* Time.Sub
Sub(t, u) == t - u

\* Time passes between two steps of the workers.
Tick ==
    /\ now < env.ticks
    /\ now' = now + 1
    /\ UNCHANGED <<call, hook, stdout, cfg, wtime, env, dpc, req, lastID, queue, locks, wpc,
                   wreq, widx, wctx, wrctx, result, results, handed, enqOrder, ran,
                   wstarted, executed, wout, wexit>>

\* A deployment context whose deadline, counted from the enqueue of a request
\* that waited longer than the timeout, has passed when the worker starts.
deployContextFromEnqueue == TRUE

\* executeDeployment, line 115: context.WithTimeout(context.Background(),
\* e.config.Timeout), created by the worker after the lock was acquired; its
\* deadline has not passed when it is created.
deployContext == FALSE

\* executeDeployment that returns the dry-run result without running the
\* deferred releaseLock.
afterDryRunPublish == "publish"

\* executeDeployment, lines 118-128: the dry-run branch falls through to the
\* return, which runs the releaseLock deferred at line 106.
afterDryRun == "release"

\* executeDeployment, lines 94-123 up to the call of runCommands: the lock,
\* the STARTED result, the context and the dry-run branch.  The result of a
\* failed acquisition takes its start time and its end time from two reads
\* of the clock and has no duration set.
Acquire(w) ==
    LET r == wreq[w]
        appName == appOf(r) IN
    /\ wpc[w] = "acquire"
    /\ IF ~canAcquire(appName)
       THEN /\ result' = [result EXCEPT ![w] =
                    [Request |-> r, Status |-> StatusFailed, Output |-> <<>>,
                     Error |-> <<ErrLock>>, ExitCode |-> 0]]
            /\ \E later \in ClockReadings :
                  /\ wtime' = [wtime EXCEPT ![w] =
                        [StartTime |-> now, EndTime |-> later, Duration |-> 0]]
                  /\ now' = later
            /\ wpc' = [wpc EXCEPT ![w] = afterLockFailure]
            /\ UNCHANGED <<locks, widx, wctx, ran>>
       ELSE /\ locks' = lockAdded(appName, req[r].ID)
            /\ ran' = ran \cup {r}
            /\ wtime' = [wtime EXCEPT ![w] =
                  [StartTime |-> now, EndTime |-> 0, Duration |-> 0]]
            /\ UNCHANGED now
            /\ wctx' = [wctx EXCEPT ![w] = deployContext]
            /\ IF dryRun(cfg)
               THEN /\ result' = [result EXCEPT ![w] =
                           [Request |-> r, Status |-> StatusSuccess,
                            Output |-> <<DryRunOutput>>, Error |-> <<>>, ExitCode |-> 0]]
                    /\ wpc' = [wpc EXCEPT ![w] = afterDryRun]
                    /\ UNCHANGED widx
               ELSE /\ result' = [result EXCEPT ![w] =
                           [Request |-> r, Status |-> StatusStarted,
                            Output |-> <<>>, Error |-> <<>>, ExitCode |-> 0]]
                    /\ widx' = [widx EXCEPT ![w] = 1]
                    /\ wpc' = [wpc EXCEPT ![w] = "loop"]
    /\ UNCHANGED <<call, hook, stdout, cfg, env, dpc, req, lastID, queue, wreq, wrctx,
                   results, handed, enqOrder, wstarted, executed, wout, wexit>>

\* The deadline of the deployment context passes while the command loop is
\* at work (context.WithTimeout, line 115).
DeadlineElapse(w) ==
    /\ wpc[w] \in {"loop", "cmd"}
    /\ ~wctx[w]
    /\ wctx' = [wctx EXCEPT ![w] = TRUE]
    /\ UNCHANGED <<call, hook, stdout, cfg, now, wtime, env, dpc, req, lastID, queue, locks, wpc, wreq, widx, result,
                   results, handed, enqOrder, ran, wstarted, executed, wout, wexit, wrctx>>

\* The deadline of the rollback context passes while the rollback command
\* runs (context.WithTimeout, line 253).
RollbackDeadlineElapse(w) ==
    /\ wpc[w] = "rollback"
    /\ ~wrctx[w]
    /\ wrctx' = [wrctx EXCEPT ![w] = TRUE]
    /\ UNCHANGED <<call, hook, stdout, cfg, now, wtime, env, dpc, req, lastID, queue, locks, wpc, wreq, widx, result,
                   results, handed, enqOrder, ran, wstarted, executed, wout, wexit, wctx>>

\* runCommands that returns after the loop without setting the status.
statusAfterLoopUnset == StatusStarted

\* The status runCommands leaves when every command has succeeded (line 169).
statusAfterLoop == StatusSuccess

\* A loop that starts each command without looking at the context.
ctxIsDoneNever(w) == FALSE

\* runCommands, lines 136-143: the select on ctx.Done() with a default
\* branch, before each command.
ctxIsDone(w) == wctx[w]

\* runCommands, lines 135-147 and 169-171: the head of one loop iteration.
\* Past the last command the result is SUCCESS with the output built so far;
\* with the deadline elapsed it is TIMEOUT (the builder is not copied to the
\* result); otherwise the command is started.
LoopHead(w) ==
    LET r == wreq[w]
        cmds == req[r].Commands IN
    /\ wpc[w] = "loop"
    /\ IF widx[w] > Len(cmds)
       THEN /\ result' = [result EXCEPT ![w].Status = statusAfterLoop,
                                        ![w].Output = wout[w]]
            /\ wpc' = [wpc EXCEPT ![w] = "release"]
            /\ UNCHANGED <<wstarted, executed>>
       ELSE IF ctxIsDone(w)
       THEN /\ result' = [result EXCEPT ![w].Status = StatusTimeout,
                                        ![w].Error = <<ErrTimedOut>>]
            /\ wpc' = [wpc EXCEPT ![w] = "release"]
            /\ UNCHANGED <<wstarted, executed>>
       ELSE /\ wstarted' = [wstarted EXCEPT ![w] = Append(@, widx[w])]
            /\ executed' = executed \cup {r}
            /\ wpc' = [wpc EXCEPT ![w] = "cmd"]
            /\ UNCHANGED result
    /\ UNCHANGED <<call, hook, stdout, cfg, now, wtime, env, dpc, req, lastID, queue, locks, wreq, widx, wctx, wrctx,
                   results, handed, enqOrder, ran, wout, wexit>>

\* The entry of wstarted that stands for the rollback subprocess (the
\* deployment commands are entered by their index, from 1).
RollbackMark == 0

\* What cmd.CombinedOutput can report: a command whose context is done was
\* killed; a command whose context is live exits zero or with a failure code.
Outcomes(ctxDone) ==
    IF ctxDone THEN {[ok |-> FALSE, code |-> KilledCode]}
    ELSE {[ok |-> TRUE, code |-> 0]} \cup {[ok |-> FALSE, code |-> c] : c \in env.codes}

\* runCommands that leaves result.ExitCode as it was.
exitCodeUnset(o) == 0

\* runCommands, line 157: cmd.ProcessState.ExitCode()
exitCode(o) == o.code

\* runCommands that reports a command killed by the deadline as a timeout.
statusOnErrorTimeout(o) == IF o.code = KilledCode THEN StatusTimeout ELSE StatusFailed

\* runCommands, line 155: the status on any error of cmd.CombinedOutput,
\* a non-zero exit and a kill by the context alike.
statusOnError(o) == StatusFailed

\* A rollback run under the deployment's context.
rollbackContextInherited(w) == wctx[w]

\* performRollback, line 253: context.WithTimeout(context.Background(),
\* e.config.Timeout), a context of its own whose deadline has not passed
\* when it is created.
rollbackContext(w) == FALSE

\* runCommands, lines 149-166: the command returns and its output is
\* written to the builder; on an error the builder is copied to the result.
CmdFinish(w) ==
    LET r == wreq[w]
        cmds == req[r].Commands
        i == widx[w]
        entry == [index |-> i, command |-> cmds[i]] IN
    /\ wpc[w] = "cmd"
    /\ \E o \in Outcomes(wctx[w]) :
        /\ wexit' = [wexit EXCEPT ![w] = Append(@, o.code)]
        /\ wout' = [wout EXCEPT ![w] = Append(@, entry)]
        /\ IF o.ok
           THEN /\ widx' = [widx EXCEPT ![w] = i + 1]
                /\ wpc' = [wpc EXCEPT ![w] = "loop"]
                /\ UNCHANGED <<result, wstarted, wrctx>>
           ELSE /\ result' = [result EXCEPT
                       ![w].Status = statusOnError(o),
                       ![w].Error = <<[text |-> ErrCommandFailed, command |-> cmds[i]]>>,
                       ![w].ExitCode = exitCode(o),
                       ![w].Output = Append(wout[w], entry)]
                /\ IF shouldRollback(cfg, req[r].Repository)
                   THEN /\ wpc' = [wpc EXCEPT ![w] = "rollback"]
                        /\ wstarted' = [wstarted EXCEPT ![w] = Append(@, RollbackMark)]
                        /\ wrctx' = [wrctx EXCEPT ![w] = rollbackContext(w)]
                   ELSE /\ wpc' = [wpc EXCEPT ![w] = "release"]
                        /\ UNCHANGED <<wstarted, wrctx>>
                /\ UNCHANGED widx
    /\ UNCHANGED <<call, hook, stdout, cfg, now, wtime, env, dpc, req, lastID, queue, locks, wreq, wctx,
                   results, handed, enqOrder, ran, executed>>

\* What the rollback's cmd.CombinedOutput can report: the command runs under
\* a context of its own (line 253), whose deadline may pass while it runs.
RollbackOutcomes(w) == Outcomes(wrctx[w])

\* performRollback that treats every return of the command as an error.
rollbackOkNever(o) == FALSE

\* performRollback that reports ROLLBACK whatever the command returned.
rollbackOkAlways(o) == TRUE

\* performRollback, line 261: err == nil
rollbackOk(o) == o.ok

\* performRollback, lines 245-267: the rollback command returns, under a
\* context of its own.
RollbackFinish(w) ==
    LET r == wreq[w]
        rollbackCmd == cfg.RollbackCommands[appOf(r)] IN
    /\ wpc[w] = "rollback"
    /\ \E o \in RollbackOutcomes(w) :
        /\ wexit' = [wexit EXCEPT ![w] = Append(@, o.code)]
        /\ IF rollbackOk(o)
           THEN result' = [result EXCEPT
                    ![w].Status = StatusRollback,
                    ![w].Output = Append(@, [text |-> RollbackOutput,
                                             command |-> rollbackCmd])]
           ELSE result' = [result EXCEPT
                    ![w].Error = Append(@, [text |-> ErrRollbackFailed,
                                            command |-> rollbackCmd])]
    /\ wpc' = [wpc EXCEPT ![w] = "release"]
    /\ UNCHANGED <<call, hook, stdout, cfg, now, wtime, env, dpc, req, lastID, queue, locks, wreq, widx, wctx, wrctx,
                   results, handed, enqOrder, ran, wstarted, executed, wout>>

\* executeDeployment, lines 106 and 125-128: the end time, the duration and
\* the return, which runs the deferred releaseLock.
Release(w) ==
    /\ wpc[w] = "release"
    /\ wtime' = [wtime EXCEPT ![w].EndTime = now,
                              ![w].Duration = Sub(now, wtime[w].StartTime)]
    /\ locks' = lockDeleted(appOf(wreq[w]))
    /\ wpc' = [wpc EXCEPT ![w] = "publish"]
    /\ UNCHANGED <<call, hook, stdout, cfg, now, env, dpc, req, lastID, queue, wreq, widx, wctx, wrctx, result,
                   results, handed, enqOrder, ran, wstarted, executed, wout, wexit>>

\* Is there room for a non-blocking send on the result channel
resultsHasRoom == Len(results) < ResultsCap

\* A send on the result channel that waits for room.
sendReadyWhenRoom == resultsHasRoom

\* worker, lines 83-87: the select has a default branch, so the send never
\* waits.
sendReady == TRUE

\* worker, lines 82-88: the non-blocking send of the result, or the line
\* printed in its place; the worker then loops back to the receive.
Publish(w) ==
    LET r == wreq[w] IN
    /\ wpc[w] = "publish"
    /\ sendReady
    /\ handed' = [handed EXCEPT ![r] = @ + 1]
    /\ IF resultsHasRoom
       THEN /\ results' = Append(results, result[w])
            /\ UNCHANGED stdout
       ELSE /\ stdout' = stdout \cup {r}
            /\ UNCHANGED results
    /\ wpc' = [wpc EXCEPT ![w] = "idle"]
    /\ wreq' = [wreq EXCEPT ![w] = 0]
    /\ widx' = [widx EXCEPT ![w] = 0]
    /\ wctx' = [wctx EXCEPT ![w] = FALSE]
    /\ wrctx' = [wrctx EXCEPT ![w] = FALSE]
    /\ result' = [result EXCEPT ![w] = NoResult]
    /\ wstarted' = [wstarted EXCEPT ![w] = <<>>]
    /\ wout' = [wout EXCEPT ![w] = <<>>]
    /\ wexit' = [wexit EXCEPT ![w] = <<>>]
    /\ wtime' = [wtime EXCEPT ![w] = NoTimes]
    /\ UNCHANGED <<call, hook, cfg, now, env, dpc, req, lastID, queue, locks, enqOrder, ran,
                   executed>>

\* processDeploymentResults: the consumer receives one result.
Consume ==
    /\ results # <<>>
    /\ results' = Tail(results)
    /\ UNCHANGED <<call, hook, stdout, cfg, now, wtime, env, dpc, req, lastID, queue, locks, wpc, wreq, widx, wctx, wrctx,
                   result, handed, enqOrder, ran, wstarted, executed, wout, wexit>>

Next ==
    \/ \E r \in Reqs, repository \in Repos : DeployCheck(r, repository)
    \/ \E r \in Reqs : DeployEnqueue(r)
    \/ \E w \in Workers : Dequeue(w)
    \/ \E w \in Workers : Acquire(w)
    \/ \E w \in Workers : DeadlineElapse(w)
    \/ \E w \in Workers : LoopHead(w)
    \/ \E w \in Workers : CmdFinish(w)
    \/ \E w \in Workers : RollbackDeadlineElapse(w)
    \/ \E w \in Workers : RollbackFinish(w)
    \/ \E w \in Workers : Release(w)
    \/ \E w \in Workers : Publish(w)
    \/ Consume

Spec == Init /\ [][Next]_vars

\* One step of worker w, whatever its position.
WorkerStep(w) ==
    /\ w \in Workers
    /\ \/ Dequeue(w)
       \/ Acquire(w)
       \/ LoopHead(w)
       \/ CmdFinish(w)
       \/ RollbackFinish(w)
       \/ Release(w)
       \/ Publish(w)

\* The scheduler runs every worker goroutine that can take a step, and every
\* subprocess returns (at the latest when its context kills it).  Deploy
\* calls, the passing of the deadline and the consumer are under no such
\* obligation.
Fairness == \A w \in 1..MaxConcurrency : WF_vars(WorkerStep(w))

\* The fair behaviours are explored for one Deploy call fewer.
InitLive == InitWith(MaxReq - 1)

LiveSpec == InitLive /\ [][Next]_vars /\ Fairness

\* The command pipeline under its own configurations, for one Deploy call
\* fewer.
InitPipeline == InitOf(PipelineEnvironments, MaxReq - 1)

PipelineSpec == InitPipeline /\ [][Next]_vars

\* The executor under a clock that advances: two workers, the per-app entry
\* with a rollback, dry run on and off.
TimeEnvironments ==
    [cfg : {c \in PipelineConfigs :
               c.ConcurrencyLimit = MaxConcurrency /\ AppA \in DOMAIN c.RollbackCommands
               /\ c.Commands[AppA] = CmdXY},
     coarse : {FALSE}, codes : {OneFailCode}, ticks : {MaxTicks}]

TimeNext == Next \/ Tick

InitTime == InitOf(TimeEnvironments, MaxReq - 1)

TimeSpec == InitTime /\ [][TimeNext]_vars

\* ---------------------------------------------------- the webhook handler
\* strings.TrimPrefix
TrimPrefix(s, prefix) ==
    IF MatchAt(s, 1, prefix) THEN SubSeq(s, Len(prefix) + 1, Len(s)) ELSE s

RefsHeads == <<"r", "e", "f", "s", "/", "h", "e", "a", "d", "s", "/">>
BranchM == <<"m">>
BranchD == <<"d">>
Refs == {RefsHeads \o BranchM, RefsHeads \o BranchD, BranchM}

SecretK == <<"k">>
SecretJ == <<"j">>
LocalPath == <<"p">>

\* HMAC-SHA256 and its hex encoding, idealised: the code is determined by
\* the key and the message, and different keys or messages give different
\* codes.
Hmac(key, message) == [key |-> key, message |-> message]
HexEncode(mac) == <<mac>>

\* The bodies a request can carry: one that cannot be read, one that is not
\* JSON, and the push payloads.
Bodies ==
    { [read |-> FALSE, json |-> FALSE, Ref |-> EmptyStr, FullName |-> EmptyStr],
      [read |-> TRUE, json |-> FALSE, Ref |-> EmptyStr, FullName |-> EmptyStr] }
    \cup { [read |-> TRUE, json |-> TRUE, Ref |-> ref, FullName |-> repository] :
             ref \in Refs, repository \in Repos }

\* The values of the X-Hub-Signature-256 header sent with a body: none, the
\* code under one of three keys (the empty key among them) with the sha256=
\* prefix, the code of another body, and the right code under another prefix.
EmptySig == [prefix |-> "", rest |-> <<>>]
OtherBody == [read |-> TRUE, json |-> TRUE, Ref |-> BranchD, FullName |-> RepoA]
SignaturesFor(body) ==
    {EmptySig}
    \cup {[prefix |-> "sha256=", rest |-> HexEncode(Hmac(k, body))] :
            k \in {EmptyStr, SecretK, SecretJ}}
    \cup {[prefix |-> "sha256=", rest |-> HexEncode(Hmac(SecretK, OtherBody))],
          [prefix |-> "sha1=", rest |-> HexEncode(Hmac(SecretK, body))]}

\* The HTTP requests the handler is sent.
WebhookRequests ==
    { [Method |-> m, Signature |-> sig, Event |-> ev, Body |-> body, expand |-> x] :
        m \in {"POST", "GET"}, ev \in {"push", "ping"}, body \in Bodies,
        sig \in UNION {SignaturesFor(b) : b \in Bodies}, x \in BOOLEAN }

\* config.Config with the fields the handler reads: the per-app commands
\* with a rollback, one mapped repository.
WebhookConfigs ==
    { [ConcurrencyLimit |-> n, DryRun |-> FALSE,
       Commands |-> [k \in {AppA} |-> CmdXY], DefaultCommands |-> EmptyStr,
       RollbackCommands |-> [k \in {AppA} |-> CmdRollback],
       WebhookSecret |-> secret, BranchFilter |-> filter,
       RepoMap |-> [k \in {RepoA} |-> LocalPath]] :
         n \in 1..MaxConcurrency, secret \in {EmptyStr, SecretK},
         filter \in {EmptyStr, BranchM} }

WebhookEnvironments ==
    [cfg : WebhookConfigs, coarse : {FALSE}, codes : {OneFailCode}, ticks : {0}]

\* A verifySignature that accepts every request.
verifySignatureAny(c, signature, body) == TRUE

\* Handler.verifySignature
verifySignature(c, signature, body) ==
    IF signature = EmptySig \/ c.WebhookSecret = EmptyStr THEN FALSE
    ELSE IF signature.prefix # "sha256=" THEN FALSE
    ELSE signature.rest = HexEncode(Hmac(c.WebhookSecret, body))

\* Handler.processWebhook: no request (nil, nil) for a branch the filter
\* excludes, an error for a repository without a local path (or a path that
\* cannot be expanded), the deployment request otherwise.
processWebhook(c, payload, expand) ==
    LET branch == TrimPrefix(payload.Ref, RefsHeads) IN
    IF c.BranchFilter # EmptyStr /\ branch # c.BranchFilter
    THEN [nil |-> TRUE, err |-> FALSE, Repository |-> EmptyStr]
    ELSE IF ~(payload.FullName \in DOMAIN c.RepoMap) \/ ~expand
    THEN [nil |-> TRUE, err |-> TRUE, Repository |-> EmptyStr]
    ELSE [nil |-> FALSE, err |-> FALSE, Repository |-> payload.FullName]

\* The HTTP status HandleWebhook answers with before it gets to Deploy, 0 if
\* it gets there.
statusBeforeDeploy(c, h) ==
    IF h.Method # "POST" THEN 405
    ELSE IF ~h.Body.read THEN 400
    ELSE IF ~verifySignature(c, h.Signature, h.Body) THEN 401
    ELSE IF h.Event # "push" THEN 200
    ELSE IF ~h.Body.json THEN 400
    ELSE LET p == processWebhook(c, h.Body, h.expand) IN
         IF p.err THEN 400 ELSE IF p.nil THEN 200 ELSE 0

\* What HandleWebhook has made of request h when it answers or gets to
\* Deploy: the answer's status, or the request and the repository of the
\* deployment request built from it.
hookAfter(c, h) ==
    LET status == statusBeforeDeploy(c, h) IN
    IF status # 0
    THEN [stage |-> "rejected", status |-> status]
    ELSE [stage |-> "deploy", request |-> h,
          Repository |-> processWebhook(c, h.Body, h.expand).Repository]

\* Per configuration, one request for each thing the handler can make of a
\* request: every request that gets to Deploy, and one request per status
\* among those answered before.
RequestsToldApart ==
    [c \in WebhookConfigs |->
        LET after == {hookAfter(c, h) : h \in WebhookRequests} IN
        {CHOOSE h \in WebhookRequests : hookAfter(c, h) = a : a \in after}]

\* HandleWebhook, lines 35-95: request h arrives as the r-th one; it is
\* answered, or the deployment request is built for Deploy.
HandleWebhook(r, h) ==
    /\ hook[r] = NoHook
    /\ dpc[r] = "new"
    /\ r <= env.calls
    /\ \A q \in Reqs : q < r => hook[q] # NoHook
    /\ hook' = [hook EXCEPT ![r] = hookAfter(cfg, h)]
    /\ UNCHANGED <<call, stdout, cfg, now, wtime, env, dpc, req, lastID, queue, locks, wpc, wreq,
                   widx, wctx, wrctx, wout, wexit, result, results, wstarted, handed,
                   enqOrder, ran, executed>>

\* HandleWebhook, line 98: the call of Executor.Deploy.
WebhookDeploy(r) ==
    /\ hook[r].stage = "deploy"
    /\ DeployCheck(r, hook[r].Repository)

WebhookNext ==
    \/ \E r \in Reqs, h \in RequestsToldApart[cfg] : HandleWebhook(r, h)
    \/ \E r \in Reqs : WebhookDeploy(r)
    \/ \E r \in Reqs : DeployEnqueue(r)
    \/ \E w \in Workers : Dequeue(w)
    \/ \E w \in Workers : Acquire(w)
    \/ \E w \in Workers : DeadlineElapse(w)
    \/ \E w \in Workers : LoopHead(w)
    \/ \E w \in Workers : CmdFinish(w)
    \/ \E w \in Workers : RollbackDeadlineElapse(w)
    \/ \E w \in Workers : RollbackFinish(w)
    \/ \E w \in Workers : Release(w)
    \/ \E w \in Workers : Publish(w)
    \/ Consume

\* The executor behind the webhook handler, every Deploy call coming from
\* the handler.
InitWebhook == InitOf(WebhookEnvironments, MaxReq - 1)

WebhookSpec == InitWebhook /\ [][WebhookNext]_vars

\* ------------------------------------------------------ the pure functions
\* Longest repository identifier handed to GetAppName.
MaxIdLen == 5
MaxCmdLen == 5

\* The repository identifiers: every string of at most MaxIdLen characters
\* over an owner character, a name character and the separator.
RECURSIVE StringsUpTo(_, _)
StringsUpTo(chars, n) ==
    IF n = 0 THEN {<<>>}
    ELSE LET shorter == StringsUpTo(chars, n - 1) IN
         shorter \cup {Append(t, c) : t \in shorter, c \in chars}

RepoIds == StringsUpTo({"o", "a", "/"}, MaxIdLen)

\* The command strings: every string of at most MaxCmdLen characters over a
\* letter, the blank and the characters of the shell operators && || ; &.
CommandStrings == StringsUpTo({"x", " ", "&", "|", ";"}, MaxCmdLen)

\* Concatenation of the strings of a sequence, sep between neighbours.
RECURSIVE JoinWith(_, _)
JoinWith(strs, sep) ==
    IF strs = <<>> THEN <<>>
    ELSE IF Len(strs) = 1 THEN strs[1]
    ELSE strs[1] \o sep \o JoinWith(Tail(strs), sep)

\* Default templates are put together from words; a word is a sequence of
\* pieces, each the placeholder token or literal text.
Git == <<"g", "i", "t">>
Pull == <<"p", "u", "l", "l">>
Build == <<"b", "u", "i", "l", "d">>
Site == <<"s", "i", "t", "e">>

TemplateWords ==
    { <<Git>>, <<Pull>>, <<Build>>, <<Placeholder>>,
      << <<"-">>, Placeholder, <<"2">> >>, <<Placeholder, Placeholder>> }

\* A segment is a sequence of at most two words, a template one or two
\* segments and the text put between them.
TemplateSegments ==
    {<<>>} \cup {<<a>> : a \in TemplateWords}
           \cup {<<a, b>> : a \in {<<Git>>, <<Build>>, <<Placeholder>>}, b \in TemplateWords}

TemplateShapes ==
    { [segs |-> g, sep |-> p] :
        g \in {<<a>> : a \in TemplateSegments}
               \cup {<<a, b>> : a \in TemplateSegments, b \in TemplateSegments},
        p \in {AndAnd, <<" ">> \o AndAnd \o <<" ">>} }

\* The text of a word, of a segment, of a template.
WordText(word) == JoinWith(word, <<>>)
SegmentText(seg) == JoinWith([i \in DOMAIN seg |-> WordText(seg[i])], <<" ">>)
TemplateText(shape) ==
    JoinWith([i \in DOMAIN shape.segs |-> SegmentText(shape.segs[i])], shape.sep)

\* config.Config with nothing but a default template.
TemplateConfig(template) ==
    [ConcurrencyLimit |-> 1, DryRun |-> FALSE, Commands |-> EmptyMap,
     DefaultCommands |-> template, RollbackCommands |-> EmptyMap]

\* config.Config with an entry for application a and a default template.
EntryConfig(entry, template) ==
    [ConcurrencyLimit |-> 1, DryRun |-> FALSE, Commands |-> [k \in {AppA} |-> entry],
     DefaultCommands |-> template, RollbackCommands |-> EmptyMap]

\* The entries and the default templates they are combined with; the entry
\* "z appname" holds the placeholder token.
Entries == {CmdXY, CmdBlank, EmptyStr, CmdDefault}
Templates == {EmptyStr, CmdDefault, CmdThree}

\* The calls explored: parseCommands on every command string,
\* GetAppName on every identifier, prepareCommands under
\* every template for a repository of each of two application names, and
\* prepareCommands under every entry and default template for a repository
\* of the application with the entry and one of an application without.
PureCalls ==
    { [cfg |-> TemplateConfig(CmdDefault),
       call |-> [fn |-> "GetAppName", arg |-> id, done |-> FALSE]] : id \in RepoIds }
    \cup
    { [cfg |-> TemplateConfig(TemplateText(shape)),
       call |-> [fn |-> "prepareCommands", arg |-> <<"o", "/">> \o name,
                 shape |-> shape, name |-> name, done |-> FALSE]] :
         shape \in TemplateShapes, name \in {Site, AppA} }
    \cup
    { [cfg |-> EntryConfig(entry, template),
       call |-> [fn |-> "prepareCommands", arg |-> repository, done |-> FALSE]] :
         entry \in Entries, template \in Templates, repository \in Repos }
    \cup
    { [cfg |-> TemplateConfig(CmdDefault),
       call |-> [fn |-> "parseCommands", arg |-> str, done |-> FALSE]] :
         str \in CommandStrings }

PureInit ==
    \E pc \in PureCalls :
        /\ ExecutorInit({[cfg |-> pc.cfg, coarse |-> FALSE, codes |-> OneFailCode,
                          ticks |-> 0]}, 0)
        /\ hook = [r \in Reqs |-> NoHook]
        /\ call = pc.call

\* Mapper.GetAppName is called and returns.
GetAppNameCall ==
    /\ call.fn = "GetAppName"
    /\ ~call.done
    /\ call' = [fn |-> call.fn, arg |-> call.arg, done |-> TRUE,
                ret |-> GetAppName(call.arg)]
    /\ UNCHANGED <<hook, stdout, cfg, now, wtime, env, dpc, req, lastID, queue, locks, wpc, wreq,
                   widx, wctx, wrctx, wout, wexit, result, results, wstarted, handed,
                   enqOrder, ran, executed>>

\* Executor.prepareCommands is called and returns.
PrepareCall ==
    /\ call.fn = "prepareCommands"
    /\ ~call.done
    /\ call' = [call EXCEPT !.done = TRUE] @@ [ret |-> prepareCommands(cfg, call.arg)]
    /\ UNCHANGED <<hook, stdout, cfg, now, wtime, env, dpc, req, lastID, queue, locks, wpc, wreq,
                   widx, wctx, wrctx, wout, wexit, result, results, wstarted, handed,
                   enqOrder, ran, executed>>

\* parseCommands is called and returns.
ParseCall ==
    /\ call.fn = "parseCommands"
    /\ ~call.done
    /\ call' = [fn |-> call.fn, arg |-> call.arg, done |-> TRUE,
                ret |-> parseCommands(call.arg)]
    /\ UNCHANGED <<hook, stdout, cfg, now, wtime, env, dpc, req, lastID, queue, locks, wpc, wreq,
                   widx, wctx, wrctx, wout, wexit, result, results, wstarted, handed,
                   enqOrder, ran, executed>>

PureNext == GetAppNameCall \/ PrepareCall \/ ParseCall

PureSpec == PureInit /\ [][PureNext]_vars

\* ================================================================ claims
Range(f) == {f[i] : i \in DOMAIN f}

\* Positions of executeDeployment between a successful acquireLock and the
\* deferred releaseLock.
Holding == {"loop", "cmd", "rollback", "release"}

HoldingWorkers == {w \in Workers : wpc[w] \in Holding}

\* C1: at every instant at most one request per application name is between
\* a successful lock acquisition and its release: no two workers hold the lock
\* of the same application, and the entry of the table is the one of the
\* request that holds it.
C1_MutualExclusion ==
    \A w1 \in HoldingWorkers :
        /\ appOf(wreq[w1]) \in DOMAIN locks
        /\ locks[appOf(wreq[w1])].AppName = appOf(wreq[w1])
        /\ \A w2 \in HoldingWorkers :
              w1 # w2 => appOf(wreq[w1]) # appOf(wreq[w2])

\* A worker holds an application's lock while another worker, whose request
\* is for the same application, has been refused the lock.
C1_Witness ==
    \E w1, w2 \in Workers :
        /\ wpc[w1] \in Holding
        /\ wpc[w2] = "publish"
        /\ appOf(wreq[w1]) = appOf(wreq[w2])
        /\ result[w2].Error = <<ErrLock>>

\* C2: every lock of the table belongs to a worker that is between its
\* acquisition and its release, so a worker that waits on the queue (or has
\* dequeued and not yet acquired, or is publishing) holds none: whatever
\* branch the execution took, the lock was released before the result is
\* published and the next request dequeued.
C2_ReleasedBeforeDequeue ==
    /\ \A a \in DOMAIN locks :
          \E w \in HoldingWorkers : appOf(wreq[w]) = a
    /\ (\A w \in Workers : wpc[w] \in {"idle", "publish"}) => DOMAIN locks = {}

\* A worker has finished a deployment that failed and whose rollback failed,
\* and the lock of its application is free again.
C2_Witness ==
    \E w \in Workers :
        /\ wpc[w] = "publish"
        /\ wreq[w] \in ran
        /\ result[w].Status = StatusFailed
        /\ Len(result[w].Error) = 2
        /\ ~isLocked(appOf(wreq[w]))

\* Requests a worker has dequeued and not yet turned into a result handed to
\* the result channel, told from the requests' side: admitted, no longer in
\* the queue, no result yet.
InFlight == {r \in Reqs : dpc[r] = "ok" /\ r \notin Range(queue) /\ handed[r] = 0}

\* C4: the number of requests being executed never exceeds the configured
\* concurrency limit, however many applications have requests pending.
C4_ConcurrencyCap == Cardinality(InFlight) <= cfg.ConcurrencyLimit

\* As many requests as the limit allows (two, of different applications) are
\* being executed while a further request waits in the queue.
C4_Witness ==
    /\ cfg.ConcurrencyLimit = 2
    /\ Cardinality(InFlight) = 2
    /\ Cardinality({appOf(r) : r \in InFlight}) = 2
    /\ queue # <<>>

\* C5: a Deploy call that reaches the enqueue with the queue at capacity, for
\* an application whose commands resolve, returns the queue-full error and
\* leaves the queue as it was: the step in which the call leaves the enqueue
\* attempt is a return, not a wait for room.
C5_QueueFullFailsFast ==
    [][\A r \in Reqs :
          (/\ dpc[r] = "checked"
           /\ dpc'[r] # "checked"
           /\ Len(queue) = QueueCap
           /\ ~prepareCommands(cfg, req[r].Repository).err)
          => (dpc'[r] = "full" /\ queue' = queue /\ enqOrder' = enqOrder)]_vars

\* A Deploy call of a configured application has returned the queue-full
\* error; the queue is at capacity and does not hold the request.
C5_Witness ==
    \E r \in Reqs :
        /\ dpc[r] = "full"
        /\ Len(queue) = QueueCap
        /\ r \notin Range(queue)

\* Request r was never enqueued, is not with any worker and has no result.
NeverAdmitted(r) ==
    /\ r \notin Range(queue)
    /\ r \notin Range(enqOrder)
    /\ \A w \in Workers : wreq[w] # r
    /\ handed[r] = 0
    /\ \A i \in DOMAIN results : results[i].Request # r

\* C6: a Deploy call whose pre-check finds the application's lock held
\* returns the 'deployment already in progress' error in that step; such a
\* request is never enqueued and never has a result.
C6_LockedRejected ==
    /\ [](\A r \in Reqs : dpc[r] = "locked" => NeverAdmitted(r))
    /\ [][\A r \in Reqs :
            (/\ dpc[r] = "new"
             /\ dpc'[r] # "new"
             /\ AppNameOf[req'[r].Repository] \in DOMAIN locks)
            => dpc'[r] = "locked"]_vars
    /\ [][\A r \in Reqs : dpc[r] = "locked" => dpc'[r] = "locked"]_vars

\* A Deploy call was rejected by the pre-check while another request of the
\* same application holds the lock.
C6_Witness ==
    \E r \in Reqs, w \in Workers :
        /\ dpc[r] = "locked"
        /\ wpc[w] \in Holding
        /\ appOf(wreq[w]) = appOf(r)

\* C7: a Deploy call that passed the pre-check, for an application with no
\* entry in the command mapping while the default template is empty, returns
\* a configuration error; the request is not enqueued and never has a result.
C7_ConfigErrorAtAdmission ==
    /\ [](\A r \in Reqs : dpc[r] = "cfgerr" => NeverAdmitted(r))
    /\ [][\A r \in Reqs :
            (/\ dpc[r] = "checked"
             /\ dpc'[r] # "checked"
             /\ appOf(r) \notin DOMAIN cfg.Commands
             /\ cfg.DefaultCommands = EmptyStr)
            => (dpc'[r] = "cfgerr" /\ queue' = queue /\ enqOrder' = enqOrder)]_vars
    /\ [][\A r \in Reqs : dpc[r] = "cfgerr" => dpc'[r] = "cfgerr"]_vars

\* A Deploy call for an unlocked application without commands has returned
\* the configuration error.
C7_Witness ==
    \E r \in Reqs :
        /\ dpc[r] = "cfgerr"
        /\ appOf(r) \notin DOMAIN cfg.Commands
        /\ cfg.DefaultCommands = EmptyStr
        /\ ~isLocked(appOf(r))

\* The statuses a request can end with.
Terminal == {StatusSuccess, StatusFailed, StatusTimeout, StatusRollback}

\* Request r was admitted and has left the queue and the workers.
Completed(r) ==
    /\ dpc[r] = "ok"
    /\ r \notin Range(queue)
    /\ \A w \in Workers : wreq[w] # r

\* C8: a request has at most one result handed to the send on the result
\* channel, only admitted requests have one, a request that has left the
\* workers has exactly one; the result a worker is about to send is the one
\* of its request and has a terminal status, and so has every result on the
\* channel (none is STARTED).
C8_OneTerminalResult ==
    /\ \A r \in Reqs :
          /\ handed[r] <= 1
          /\ handed[r] = 1 => dpc[r] = "ok"
          /\ Completed(r) => handed[r] = 1
    /\ \A w \in Workers :
          wpc[w] = "publish" =>
             /\ result[w].Request = wreq[w]
             /\ result[w].Status \in Terminal
             /\ handed[wreq[w]] = 0
    /\ \A i \in DOMAIN results :
          /\ results[i].Status \in Terminal
          /\ handed[results[i].Request] = 1

\* The result of a request whose every command succeeded is on the channel.
C8_Witness ==
    \E i \in DOMAIN results :
        /\ results[i].Status = StatusSuccess
        /\ ~cfg.DryRun
        /\ Len(results[i].Output) = Len(req[results[i].Request].Commands)
        /\ Completed(results[i].Request)

\* Position of request r in the order of enqueueing.
EnqPos(r) == CHOOSE i \in DOMAIN enqOrder : enqOrder[i] = r

\* C9: for two admitted requests of one application that both run their
\* command pipeline, the one enqueued first starts first: when the first
\* command of a request is started, every request of its application that
\* has already started a command was enqueued before it.
C9_SubmissionOrder ==
    [][\A r \in executed' \ executed :
          \A q \in executed :
             appOf(q) = appOf(r) => EnqPos(q) < EnqPos(r)]_vars

\* The Deploy call of r2 began after the one of r1 had passed its pre-check
\* and enqueued before it: the two calls overlapped in time.
Overlapped(r1, r2) ==
    /\ r1 < r2
    /\ r1 \in Range(enqOrder)
    /\ r2 \in Range(enqOrder)
    /\ EnqPos(r2) < EnqPos(r1)

\* C10 as stated: of the Deploy calls for one application issued concurrently
\* while none of its deployments is executing, only one runs its pipeline.
C10_ExactlyOneRuns ==
    \A r1, r2 \in Reqs :
        (Overlapped(r1, r2) /\ appOf(r1) = appOf(r2))
        => ~(r1 \in executed /\ r2 \in executed)

\* Positions of runCommands and performRollback.
InPipeline == {"loop", "cmd", "rollback"}

\* C10, amended: of such calls at most one is running its command pipeline
\* at any instant; a queued request either runs its pipeline holding the lock
\* (alone, possibly after another one released it) or ends with a FAILED
\* result that carries the lock-acquisition error, having started no command.
C10_OneAtATime ==
    /\ \A w1, w2 \in Workers :
          (w1 # w2 /\ wpc[w1] \in InPipeline /\ wpc[w2] \in InPipeline)
          => appOf(wreq[w1]) # appOf(wreq[w2])
    /\ \A w \in Workers :
          /\ wpc[w] \in InPipeline =>
                (wreq[w] \in ran /\ isLocked(appOf(wreq[w])))
          /\ wstarted[w] # <<>> => wreq[w] \in ran
          /\ (wpc[w] = "publish" /\ wreq[w] \notin ran) =>
                /\ result[w].Status = StatusFailed
                /\ result[w].Error = <<ErrLock>>
                /\ result[w].Output = <<>>
                /\ wstarted[w] = <<>>

\* Two overlapping Deploy calls for one application were both admitted and
\* both have run their pipeline to a result, one after the other.
C10_Witness ==
    \E r1, r2 \in Reqs :
        /\ Overlapped(r1, r2)
        /\ appOf(r1) = appOf(r2)
        /\ r1 \in executed /\ r2 \in executed
        /\ handed[r1] = 1 /\ handed[r2] = 1

\* C3: under fair scheduling of the workers and terminating subprocesses,
\* every request Deploy admitted is eventually dequeued and has its result
\* handed to the result channel, and every lock that is held is eventually
\* released.
C3_EventuallyResult ==
    /\ \A r \in Reqs : (dpc[r] = "ok") ~> (handed[r] = 1 /\ Completed(r))
    /\ \A a \in {AppA, AppB} : (a \in DOMAIN locks) ~> (a \notin DOMAIN locks)

\* An admitted request went through the command pipeline, its result was
\* handed over and its application's lock is free again.
C3_Witness ==
    \E r \in Reqs :
        /\ dpc[r] = "ok"
        /\ r \in executed
        /\ handed[r] = 1
        /\ Completed(r)
        /\ appOf(r) \notin DOMAIN locks

\* C11: a worker whose acquireLock finds the application locked by another
\* request builds a FAILED result with the lock-acquisition error and goes to
\* the send of the result: the step leaves the lock table and the queue as
\* they were and starts no subprocess; the worker's next step hands over the
\* result, again without touching the lock table or the queue, and the
\* request is then with no worker and not in the queue (it is not retried),
\* having started neither a command nor a rollback.
C11_LockFailureIsFinal ==
    /\ [](\A r \in Reqs :
            (handed[r] = 1 /\ r \notin ran)
            => (Completed(r) /\ r \notin executed))
    /\ [][\A w \in Workers :
            (/\ wpc[w] = "acquire"
             /\ wpc'[w] # "acquire"
             /\ appOf(wreq[w]) \in DOMAIN locks)
            => /\ locks' = locks
               /\ queue' = queue
               /\ wpc'[w] = "publish"
               /\ wstarted'[w] = <<>>
               /\ wreq'[w] \notin ran'
               /\ result'[w] = [Request |-> wreq[w], Status |-> StatusFailed,
                                Output |-> <<>>, Error |-> <<ErrLock>>,
                                ExitCode |-> 0]]_vars
    /\ [][\A w \in Workers :
            (wpc[w] = "publish" /\ wreq[w] \notin ran /\ wpc'[w] # "publish")
            => /\ locks' = locks
               /\ queue' = queue
               /\ wpc'[w] = "idle"
               /\ handed'[wreq[w]] = 1]_vars

\* A request whose in-worker acquisition failed has had its result handed
\* over and has left the workers, while the request that held the lock still
\* holds it under its own id.
C11_Witness ==
    \E r \in Reqs, w \in Workers :
        /\ handed[r] = 1
        /\ r \notin ran
        /\ Completed(r)
        /\ wpc[w] \in Holding
        /\ appOf(wreq[w]) = appOf(r)
        /\ locks[appOf(r)] = [AppName |-> appOf(r), RequestID |-> req[wreq[w]].ID]

\* The results that exist: those the workers are about to send and those on
\* the result channel.
ResultsMade ==
    {result[w] : w \in {v \in Workers : wpc[v] = "publish"}} \cup Range(results)

\* C12 as stated: with the dry-run flag set no subprocess is ever started
\* and the result of every admitted request is SUCCESS.
C12_DryRunAlwaysSuccess ==
    cfg.DryRun =>
        /\ \A w \in Workers : wstarted[w] = <<>>
        /\ executed = {}
        /\ \A res \in ResultsMade : res.Status = StatusSuccess

\* C12, amended: with the dry-run flag set no subprocess (command or
\* rollback) is ever started; the result of an admitted request that acquired
\* its application's lock is SUCCESS with the dry-run output, and the result
\* of one whose in-worker acquisition failed is FAILED with the
\* lock-acquisition error.
C12_DryRunNoSubprocess ==
    cfg.DryRun =>
        /\ \A w \in Workers :
              /\ wstarted[w] = <<>>
              /\ wpc[w] \notin InPipeline
              /\ wpc[w] = "publish" =>
                    IF wreq[w] \in ran
                    THEN result[w] = [Request |-> wreq[w], Status |-> StatusSuccess,
                                      Output |-> <<DryRunOutput>>, Error |-> <<>>,
                                      ExitCode |-> 0]
                    ELSE result[w] = [Request |-> wreq[w], Status |-> StatusFailed,
                                      Output |-> <<>>, Error |-> <<ErrLock>>,
                                      ExitCode |-> 0]
        /\ executed = {}
        /\ \A res \in Range(results) :
              \/ res.Status = StatusSuccess /\ res.Output = <<DryRunOutput>>
              \/ res.Status = StatusFailed /\ res.Error = <<ErrLock>>

\* Under dry-run one request has its SUCCESS result about to be sent while
\* another admitted request of the same application has already ended with
\* the lock-acquisition failure.
C12_Witness ==
    /\ cfg.DryRun
    /\ \E w \in Workers, r \in Reqs :
          /\ wpc[w] = "publish"
          /\ wreq[w] \in ran
          /\ result[w].Status = StatusSuccess
          /\ result[w].Output = <<DryRunOutput>>
          /\ r # wreq[w]
          /\ appOf(r) = appOf(wreq[w])
          /\ handed[r] = 1
          /\ r \notin ran

\* The entries runCommands writes to its builder for commands 1..k of cmds.
OutputEntries(cmds, k) == [i \in 1..k |-> [index |-> i, command |-> cmds[i]]]

\* Exit status of the latest subprocess of worker w that has returned.
LastExit(w) == wexit[w][Len(wexit[w])]

\* C13: once command k of the prepared list has exited non-zero and no
\* rollback is configured for the application, the worker has left the loop
\* with a FAILED result that has the exit code of command k, an error that
\* names command k and an output of exactly the entries of commands 1..k in
\* order; the subprocesses started for the request are then and until the
\* result is sent exactly commands 1..k, and the result is sent as it was
\* made.
C13_FailureStopsPipeline ==
    /\ \A w \in Workers :
          (/\ wexit[w] # <<>>
           /\ LastExit(w) \in FailCodes
           /\ ~shouldRollback(cfg, req[wreq[w]].Repository))
          => LET cmds == req[wreq[w]].Commands
                 k == widx[w] IN
             /\ wpc[w] \in {"release", "publish"}
             /\ Len(wexit[w]) = k
             /\ wstarted[w] = [i \in 1..k |-> i]
             /\ result[w] = [Request |-> wreq[w], Status |-> StatusFailed,
                             Output |-> OutputEntries(cmds, k),
                             Error |-> <<[text |-> ErrCommandFailed,
                                         command |-> cmds[k]]>>,
                             ExitCode |-> LastExit(w)]
    /\ \A w \in Workers :
          (/\ wpc[w] \in {"release", "publish"}
           /\ result[w].Status = StatusFailed
           /\ wreq[w] \in ran
           /\ ~shouldRollback(cfg, req[wreq[w]].Repository))
          => LET cmds == req[wreq[w]].Commands
                 k == Len(result[w].Output) IN
             /\ k \in 1..Len(cmds)
             /\ wstarted[w] = [i \in 1..k |-> i]
             /\ result[w].Output = OutputEntries(cmds, k)
             /\ result[w].Error = <<[text |-> ErrCommandFailed, command |-> cmds[k]]>>
             /\ wexit[w] = [i \in 1..k |-> IF i < k THEN 0 ELSE result[w].ExitCode]
             /\ result[w].ExitCode # 0

\* The second of three commands has exited with code 2, no rollback is
\* configured, and the FAILED result is about to be sent.
C13_Witness ==
    \E w \in Workers :
        /\ wpc[w] = "publish"
        /\ Len(req[wreq[w]].Commands) = 3
        /\ ~shouldRollback(cfg, req[wreq[w]].Repository)
        /\ result[w].Status = StatusFailed
        /\ result[w].ExitCode = 2
        /\ Len(result[w].Output) = 2
        /\ wstarted[w] = <<1, 2>>

\* C14: a deployment whose command was still running when the deadline
\* passed (the command was killed by its context) ends with status TIMEOUT,
\* and no deployment command after that one is started.
C14_KilledCommandIsTimeout ==
    \A w \in Workers :
        \A i \in DOMAIN wexit[w] :
            (/\ wpc[w] \in {"release", "publish"}
             /\ wstarted[w][i] # RollbackMark
             /\ wexit[w][i] = KilledCode)
            => /\ result[w].Status = StatusTimeout
               /\ \A j \in DOMAIN wstarted[w] : j > i => wstarted[w][j] = RollbackMark

\* C15: the rollback command is run only for an application with a rollback
\* entry, after a deployment command has failed and the output up to and
\* including the failing command has been captured; once it has exited zero
\* the worker is past the pipeline, the status is ROLLBACK and the output is
\* the captured output followed by the rollback output (error and exit code
\* are those of the failure), and that is the result the worker sends.
C15_RollbackSucceeded ==
    /\ \A w \in Workers :
          wpc[w] = "rollback" =>
             /\ shouldRollback(cfg, req[wreq[w]].Repository)
             /\ result[w].Status = StatusFailed
             /\ result[w].Output = OutputEntries(req[wreq[w]].Commands, widx[w])
             /\ LastExit(w) # 0
    /\ \A w \in Workers :
          (/\ wstarted[w] # <<>>
           /\ wstarted[w][Len(wstarted[w])] = RollbackMark
           /\ Len(wexit[w]) = Len(wstarted[w])
           /\ LastExit(w) = 0)
          => LET cmds == req[wreq[w]].Commands
                 k == widx[w] IN
             /\ wpc[w] \in {"release", "publish"}
             /\ Len(wstarted[w]) = k + 1
             /\ result[w] =
                   [Request |-> wreq[w], Status |-> StatusRollback,
                    Output |-> OutputEntries(cmds, k)
                               \o <<[text |-> RollbackOutput,
                                     command |-> cfg.RollbackCommands[appOf(wreq[w])]]>>,
                    Error |-> <<[text |-> ErrCommandFailed, command |-> cmds[k]]>>,
                    ExitCode |-> wexit[w][k]]
             /\ wexit[w][k] # 0

\* The second command of a list failed, the rollback command exited zero and
\* the ROLLBACK result, with three output entries, is about to be sent.
C15_Witness ==
    \E w \in Workers :
        /\ wpc[w] = "publish"
        /\ result[w].Status = StatusRollback
        /\ wstarted[w] = <<1, 2, RollbackMark>>
        /\ Len(result[w].Output) = 3
        /\ result[w].ExitCode \in FailCodes

\* C16: when the rollback command fails (non-zero exit, or killed when the
\* deadline of its own context passes) the status stays FAILED, the error is
\* the command-failure message followed by the rollback-failure message, the
\* exit code and the output stay those of the failing deployment command; the
\* worker goes on to release the lock and, scheduled fairly, hands over that
\* result.
C16_RollbackFailed ==
    /\ [][\A w \in Workers :
            (wpc[w] = "rollback" /\ wpc'[w] # "rollback" /\ wexit'[w][Len(wexit'[w])] # 0)
            => /\ wpc'[w] = "release"
               /\ result'[w] =
                     [result[w] EXCEPT
                        !.Error = <<[text |-> ErrCommandFailed,
                                     command |-> req[wreq[w]].Commands[widx[w]]],
                                    [text |-> ErrRollbackFailed,
                                     command |-> cfg.RollbackCommands[appOf(wreq[w])]]>>]
               /\ result'[w].Status = StatusFailed
               /\ result'[w].ExitCode = wexit[w][Len(wexit[w])]]_vars
    /\ [](\A w \in Workers :
            (/\ wpc[w] \in {"release", "publish"}
             /\ wstarted[w] # <<>>
             /\ wstarted[w][Len(wstarted[w])] = RollbackMark
             /\ LastExit(w) # 0)
            => /\ result[w].Status = StatusFailed
               /\ Len(result[w].Error) = 2
               /\ result[w].ExitCode = wexit[w][Len(wexit[w]) - 1]
               /\ result[w].ExitCode # 0)
    /\ \A r \in Reqs :
          (\E w \in Workers : wpc[w] = "rollback" /\ wreq[w] = r)
          ~> (handed[r] = 1 /\ Completed(r))

\* A rollback command was killed by the deadline of its own context, and
\* the FAILED result with both messages is about to be sent.
C16_Witness ==
    \E w \in Workers :
        /\ wpc[w] = "publish"
        /\ wstarted[w] # <<>>
        /\ wstarted[w][Len(wstarted[w])] = RollbackMark
        /\ LastExit(w) = KilledCode
        /\ result[w].Status = StatusFailed
        /\ Len(result[w].Error) = 2
        /\ result[w].ExitCode \in FailCodes

\* C17: the worker's send of a result never waits.  With the result channel
\* full the step drops the result: the channel is left as it was, the
\* 'Results channel full' line is printed for the request, and the worker is
\* back at the receive from the queue; with room the result is appended and
\* nothing is printed.  So, the workers being scheduled fairly and the
\* consumer under no obligation to ever receive, a worker that has a result
\* to send gets back to the receive, every admitted request gets executed
\* and handed over, and every held lock is released, also from states in
\* which the channel is full.
C17_PublishNeverBlocks ==
    /\ [][\A w \in Workers :
            (wpc[w] = "publish" /\ wpc'[w] # "publish")
            => /\ wpc'[w] = "idle"
               /\ handed'[wreq[w]] = handed[wreq[w]] + 1
               /\ IF Len(results) = ResultsCap
                  THEN /\ results' = results
                       /\ stdout' = stdout \cup {wreq[w]}
                  ELSE /\ results' = Append(results, result[w])
                       /\ stdout' = stdout]_vars
    /\ [][stdout' # stdout => \E w \in Workers : wpc[w] = "publish" /\ wpc'[w] = "idle"]_vars
    /\ \A w \in 1..MaxConcurrency :
          ((\E v \in Workers : v = w /\ wpc[v] = "publish") /\ Len(results) = ResultsCap)
          ~> (\A v \in Workers : v = w => wpc[v] = "idle")
    /\ \A r \in Reqs :
          (dpc[r] = "ok" /\ Len(results) = ResultsCap)
          ~> (handed[r] = 1 /\ Completed(r))
    /\ \A a \in {AppA, AppB} :
          (a \in DOMAIN locks /\ Len(results) = ResultsCap) ~> (a \notin DOMAIN locks)

\* The result channel is full of a result nobody has received; the result
\* of a later request was dropped with its line printed, the worker is back
\* at the receive and the lock of the request's application is free.
C17_Witness ==
    \E r \in Reqs :
        /\ r \in stdout
        /\ r \in ran
        /\ handed[r] = 1
        /\ Completed(r)
        /\ Len(results) = ResultsCap
        /\ \A i \in DOMAIN results : results[i].Request # r
        /\ appOf(r) \notin DOMAIN locks
        /\ \A w \in Workers : wpc[w] = "idle"

\* The word with every placeholder piece replaced by the application name.
WordFor(word, name) ==
    JoinWith([i \in DOMAIN word |-> IF word[i] = Placeholder THEN name ELSE word[i]], <<>>)

\* The commands a template's segments stand for: one per segment that has a
\* word, its words separated by one blank.
RECURSIVE CommandsFor(_, _)
CommandsFor(segs, name) ==
    IF segs = <<>> THEN <<>>
    ELSE LET seg == Head(segs) IN
         (IF seg = <<>> THEN <<>>
          ELSE <<JoinWith([i \in DOMAIN seg |-> WordFor(seg[i], name)], <<" ">>)>>)
         \o CommandsFor(Tail(segs), name)

\* C18: for an application without an entry in the command mapping and a
\* non-empty default template, prepareCommands returns without error the
\* commands of the template's '&&'-separated segments, in order, with every
\* occurrence of 'appname' replaced by the application name, trimmed, the
\* empty ones dropped.
C18_DefaultTemplatePrepared ==
    (/\ call.fn = "prepareCommands"
     /\ call.done
     /\ cfg.DefaultCommands # EmptyStr
     /\ DOMAIN cfg.Commands = {})
    => /\ cfg.DefaultCommands = TemplateText(call.shape)
       /\ ~call.ret.err
       /\ call.ret.Commands = CommandsFor(call.shape.segs, call.name)

\* prepareCommands has returned ['git pull', 'build site'] for the template
\* 'git pull && build appname' and a repository of the application 'site'.
C18_Witness ==
    /\ call.fn = "prepareCommands"
    /\ call.done
    /\ call.arg = <<"o", "/", "s", "i", "t", "e">>
    /\ cfg.DefaultCommands =
          <<"g", "i", "t", " ", "p", "u", "l", "l", " ", "&", "&", " ",
            "b", "u", "i", "l", "d", " ", "a", "p", "p", "n", "a", "m", "e">>
    /\ call.ret.Commands =
          << <<"g", "i", "t", " ", "p", "u", "l", "l">>,
             <<"b", "u", "i", "l", "d", " ", "s", "i", "t", "e">> >>

\* The part of an identifier after its last separator; the identifier itself
\* when it has none.
LastSegment(id) ==
    LET seps == {i \in 1..Len(id) : id[i] = "/"} IN
    IF seps = {} THEN id
    ELSE SubSeq(id, (CHOOSE i \in seps : \A j \in seps : j <= i) + 1, Len(id))

\* C19: GetAppName returns the segment after the last separator of every
\* identifier, and the identifier unchanged when it contains no separator.
C19_LastSegment ==
    (call.fn = "GetAppName" /\ call.done) => call.ret = LastSegment(call.arg)

\* Request h is a POST signed with the configured secret, of event type
\* push, for the configured branch (if one is configured) and for a
\* repository that has a local path.
PassesChecks(h) ==
    /\ h.Method = "POST"
    /\ h.Signature = [prefix |-> "sha256=",
                      rest |-> HexEncode(Hmac(cfg.WebhookSecret, h.Body))]
    /\ h.Event = "push"
    /\ cfg.BranchFilter # EmptyStr =>
          h.Body.Ref \in {RefsHeads \o cfg.BranchFilter, cfg.BranchFilter}
    /\ h.Body.FullName \in DOMAIN cfg.RepoMap

\* C20: the handler gets to Deploy only with a request that passes all the
\* checks, and Deploy is called for its repository; Deploy is called for
\* nothing else, and a request the handler answered without Deploy is never
\* enqueued, executed or reported.
C20_DeployOnlyForVerifiedPush ==
    /\ [](\A r \in Reqs :
            /\ hook[r].stage = "deploy" =>
                  /\ PassesChecks(hook[r].request)
                  /\ hook[r].Repository = hook[r].request.Body.FullName
            /\ hook[r].stage # "deploy" => (dpc[r] = "new" /\ NeverAdmitted(r)))
    /\ [][\A r \in Reqs :
            (dpc[r] = "new" /\ dpc'[r] # "new")
            => (hook[r].stage = "deploy" /\ req'[r].Repository = hook[r].Repository)]_vars

\* With a branch filter configured, a signed push for that branch and a
\* mapped repository was enqueued by Deploy, after an earlier request had
\* been answered 401.
C20_Witness ==
    \E r1, r2 \in Reqs :
        /\ hook[r1] = [stage |-> "rejected", status |-> 401]
        /\ hook[r2].stage = "deploy"
        /\ cfg.BranchFilter = BranchM
        /\ hook[r2].request.Body.Ref = RefsHeads \o BranchM
        /\ dpc[r2] = "ok"
        /\ r2 \in executed

\* The values Deploy returns.
Returned == {"locked", "cfgerr", "ok", "full"}

\* C21: Deploy returns ok exactly when its pre-check finds the application
\* unlocked, the application has a command entry or the default template is
\* not empty, and the queue has a free slot when the send is attempted; the
\* request is then appended at the tail of the queue, and an admitted request
\* is enqueued exactly once.  What Deploy returned is never changed by what
\* happens to the request afterwards.
C21_DeployReturnsOk ==
    /\ [][\A r \in Reqs :
            (dpc[r] = "new" /\ dpc'[r] # "new")
            => /\ dpc'[r] = IF AppNameOf[req'[r].Repository] \in DOMAIN locks
                            THEN "locked" ELSE "checked"
               /\ queue' = queue]_vars
    /\ [][\A r \in Reqs :
            (dpc[r] = "checked" /\ dpc'[r] # "checked")
            => LET resolvable == \/ appOf(r) \in DOMAIN cfg.Commands
                                 \/ cfg.DefaultCommands # EmptyStr IN
               /\ dpc'[r] = "ok" <=> (resolvable /\ Len(queue) < QueueCap)
               /\ dpc'[r] = "ok" => queue' = Append(queue, r)
               /\ dpc'[r] # "ok" => (queue' = queue /\ dpc'[r] \in {"cfgerr", "full"})]_vars
    /\ [][\A r \in Reqs : dpc[r] \in Returned => dpc'[r] = dpc[r]]_vars
    /\ [](\A r \in Reqs :
            /\ dpc[r] = "ok" <=> r \in Range(enqOrder)
            /\ Cardinality({i \in DOMAIN enqOrder : enqOrder[i] = r}) <= 1
            /\ r \in Range(queue) => dpc[r] = "ok")

\* Deploy returned ok for a request whose command later failed: the FAILED
\* result is on the result channel.
C21_Witness ==
    \E r \in Reqs, i \in DOMAIN results :
        /\ dpc[r] = "ok"
        /\ results[i].Request = r
        /\ results[i].Status = StatusFailed
        /\ results[i].ExitCode \in FailCodes

\* C22: no step of Deploy changes the lock table: the table changes only in
\* a worker's acquireLock or releaseLock.  So a pre-check that finds no lock
\* passes however many requests of the application wait in the queue, and an
\* application none of whose requests is with a worker is unlocked.
C22_DeployLeavesLocks ==
    /\ [][(\E r \in Reqs : dpc'[r] # dpc[r]) => locks' = locks]_vars
    /\ [][locks' # locks =>
            \E w \in Workers :
               /\ wpc[w] \in {"acquire", "release"}
               /\ wpc'[w] # wpc[w]]_vars
    /\ [][\A r \in Reqs :
            (/\ dpc[r] = "new"
             /\ dpc'[r] # "new"
             /\ AppNameOf[req'[r].Repository] \notin DOMAIN locks)
            => dpc'[r] = "checked"]_vars
    /\ [](\A a \in {AppA, AppB} :
            (\A w \in Workers : wreq[w] = 0 \/ appOf(wreq[w]) # a)
            => a \notin DOMAIN locks)

\* Two admitted requests of one application wait in the queue, the second
\* admitted while the first was waiting, and the application is unlocked.
C22_Witness ==
    \E r1, r2 \in Reqs :
        /\ r1 # r2
        /\ appOf(r1) = appOf(r2)
        /\ queue = <<r1, r2>>
        /\ r1 < r2
        /\ appOf(r1) \notin DOMAIN locks

\* How many times request r occurs in the sequence q.
Occurrences(q, r) == Cardinality({i \in DOMAIN q : q[i] = r})

\* C23: the queue never holds more than its capacity; it is the tail end of
\* the enqueue order, so the requests already received are the first ones
\* enqueued and every receive takes the oldest request still waiting; every
\* admitted request is at exactly one place: once in the queue, with one
\* worker, or handed over once.
C23_QueueFifoBounded ==
    /\ [](Len(queue) <= QueueCap)
    /\ [](LET n == Len(enqOrder) IN
            /\ Len(queue) <= n
            /\ queue = SubSeq(enqOrder, n - Len(queue) + 1, n))
    /\ [][\A w \in Workers :
            (wpc[w] = "idle" /\ wpc'[w] # "idle")
            => /\ wreq'[w] = enqOrder[Len(enqOrder) - Len(queue) + 1]
               /\ queue' = Tail(queue)]_vars
    /\ [](\A r \in Reqs :
            Occurrences(queue, r)
              + Cardinality({w \in Workers : wreq[w] = r})
              + handed[r]
            = IF r \in Range(enqOrder) THEN 1 ELSE 0)

\* Three admitted requests: the first enqueued has been handed over, the
\* second is with a worker, the third waits; the three were not enqueued in
\* the order of their Deploy calls.
C23_Witness ==
    /\ Len(enqOrder) = 3
    /\ handed[enqOrder[1]] = 1
    /\ \E w \in Workers : wreq[w] = enqOrder[2]
    /\ queue = <<enqOrder[3]>>
    /\ enqOrder[1] > enqOrder[2]

\* C24: a worker starts the rollback subprocess at most once for a request,
\* as its last subprocess, directly after a deployment command of that
\* request returned an error, and only when the application has a rollback
\* entry; the request then holds its lock, is not a dry run, and its status
\* is FAILED or ROLLBACK.  A result with status SUCCESS, TIMEOUT or STARTED,
\* a dry run and a request whose lock acquisition failed have no rollback;
\* while the rollback runs the result is FAILED, and a result is ROLLBACK
\* only once the rollback subprocess has returned with exit code zero.
C24_RollbackOnlyAfterFailure ==
    \A w \in Workers :
        LET r == wreq[w]
            n == Len(wstarted[w]) IN
        /\ Occurrences(wstarted[w], RollbackMark) <= 1
        /\ RollbackMark \in Range(wstarted[w])
           => /\ appOf(r) \in DOMAIN cfg.RollbackCommands
              /\ ~cfg.DryRun
              /\ appOf(r) \in DOMAIN locks \/ wpc[w] = "publish"
              /\ r \in ran
              /\ n >= 2
              /\ wstarted[w][n] = RollbackMark
              /\ wstarted[w][n - 1] \in 1..Len(req[r].Commands)
              /\ wexit[w][n - 1] # 0
              /\ result[w].Status \in {StatusFailed, StatusRollback}
        /\ wpc[w] = "rollback"
           => /\ result[w].Status = StatusFailed
              /\ Len(wexit[w]) = n - 1
        /\ result[w].Status = StatusRollback
           => /\ RollbackMark \in Range(wstarted[w])
              /\ wpc[w] \in {"release", "publish"}
              /\ Len(wexit[w]) = n
              /\ wexit[w][n] = 0

\* The rollback is running: the first command succeeded, the second failed
\* and the result is FAILED.
C24_Witness ==
    \E w \in Workers :
        /\ wpc[w] = "rollback"
        /\ wstarted[w] = <<1, 2, RollbackMark>>
        /\ wexit[w][1] = 0
        /\ wexit[w][2] \in FailCodes
        /\ result[w].Status = StatusFailed

\* C25: once a deployment command has been killed because the deadline
\* passed while it ran, the worker has done what it does for a non-zero
\* exit: no further command is started, the result is FAILED with the error
\* that names the command and the exit code of a killed process, and the
\* rollback has been started exactly when the application has a rollback
\* entry (its return can only add the rollback's message or turn the status
\* to ROLLBACK).
C25_KilledCommandIsFailure ==
    \A w \in Workers :
        \A i \in DOMAIN wexit[w] :
            (wstarted[w][i] # RollbackMark /\ wexit[w][i] = KilledCode)
            => LET r == wreq[w]
                   cmds == req[r].Commands
                   failure == [text |-> ErrCommandFailed, command |-> cmds[i]] IN
               /\ wctx[w]
               /\ i = widx[w]
               /\ result[w].ExitCode = KilledCode
               /\ result[w].Error # <<>>
               /\ result[w].Error[1] = failure
               /\ IF appOf(r) \in DOMAIN cfg.RollbackCommands
                  THEN /\ wstarted[w] = [j \in 1..i |-> j] \o <<RollbackMark>>
                       /\ wpc[w] \in {"rollback", "release", "publish"}
                       /\ result[w].Status \in {StatusFailed, StatusRollback}
                       /\ wpc[w] = "rollback"
                          => (result[w].Status = StatusFailed
                              /\ result[w].Error = <<failure>>)
                  ELSE /\ wstarted[w] = [j \in 1..i |-> j]
                       /\ wpc[w] \in {"release", "publish"}
                       /\ result[w].Status = StatusFailed
                       /\ result[w].Error = <<failure>>

\* The first command of a list with a rollback entry was killed by the
\* deadline and the rollback has been started.
C25_Witness ==
    \E w \in Workers :
        /\ wpc[w] = "rollback"
        /\ wctx[w]
        /\ wexit[w] = <<KilledCode>>
        /\ wstarted[w] = <<1, RollbackMark>>
        /\ result[w].Status = StatusFailed

\* C26: at the head of each loop iteration with a command left, a deadline
\* that has passed makes the result TIMEOUT with the timed-out error; that
\* command and the ones after it are never started and no rollback is
\* started, with or without a rollback entry.  A TIMEOUT result is only made
\* this way: every command started before it returned with exit code zero.
C26_DeadlineCheckedBeforeCommand ==
    /\ [][\A w \in Workers :
            (/\ wpc[w] = "loop"
             /\ wpc'[w] # "loop"
             /\ wctx[w]
             /\ widx[w] <= Len(req[wreq[w]].Commands))
            => /\ result'[w].Status = StatusTimeout
               /\ result'[w].Error = <<ErrTimedOut>>
               /\ wpc'[w] = "release"
               /\ wstarted'[w] = wstarted[w]]_vars
    /\ [](\A w \in Workers :
            result[w].Status = StatusTimeout
            => LET cmds == req[wreq[w]].Commands
                   k == widx[w] IN
               /\ wpc[w] \in {"release", "publish"}
               /\ k <= Len(cmds)
               /\ wstarted[w] = [i \in 1..(k - 1) |-> i]
               /\ wexit[w] = [i \in 1..(k - 1) |-> 0])

\* A request of an application with a rollback entry timed out before its
\* second command: the first command ran and nothing else was started.
C26_Witness ==
    \E w \in Workers :
        /\ result[w].Status = StatusTimeout
        /\ appOf(wreq[w]) \in DOMAIN cfg.RollbackCommands
        /\ wstarted[w] = <<1>>
        /\ wpc[w] = "publish"

\* C27: the rollback is started after every failed command of an application
\* with a rollback entry, also when the deployment's deadline has passed,
\* and it starts under a context of its own whose deadline has not passed;
\* only the passing of that deadline kills the rollback command, and a
\* rollback that is not killed can return without error and give ROLLBACK.
C27_RollbackOwnContext ==
    /\ [][\A w \in Workers :
            (/\ wpc[w] = "cmd"
             /\ wpc'[w] # "cmd"
             /\ result'[w].Status = StatusFailed
             /\ appOf(wreq[w]) \in DOMAIN cfg.RollbackCommands)
            => /\ wpc'[w] = "rollback"
               /\ ~wrctx'[w]
               /\ wctx'[w] = wctx[w]]_vars
    /\ [][\A w \in Workers :
            (wpc[w] = "rollback" /\ wpc'[w] # "rollback")
            => /\ wexit'[w][Len(wexit'[w])] = KilledCode <=> wrctx[w]
               /\ result'[w].Status = StatusRollback
                  <=> wexit'[w][Len(wexit'[w])] = 0]_vars
    /\ [][\A w \in Workers :
            (wrctx'[w] /\ ~wrctx[w]) => (wpc[w] = "rollback" /\ wpc'[w] = "rollback")]_vars

\* The second command was killed by the deployment's deadline; the rollback
\* was run all the same, returned without error, and the result is ROLLBACK.
C27_Witness ==
    \E w \in Workers :
        /\ wctx[w]
        /\ ~wrctx[w]
        /\ wexit[w] = <<0, KilledCode, 0>>
        /\ wstarted[w] = <<1, 2, RollbackMark>>
        /\ result[w].Status = StatusRollback

\* C28: the deployment's deadline belongs to the context the worker creates
\* after it acquired the lock: while a request waits in the queue or for the
\* lock no deadline of its own runs, and when its execution starts the
\* deadline has not passed, however long it waited.  The deadline passes
\* only while the command loop is at work, and once passed it stays passed
\* for every later command of the list.
C28_DeadlineFromExecutionStart ==
    /\ [](\A w \in Workers : wpc[w] \in {"idle", "acquire"} => ~wctx[w])
    /\ [][\A w \in Workers :
            (wpc[w] = "acquire" /\ wpc'[w] \in {"loop", "release"}) => ~wctx'[w]]_vars
    /\ [][\A w \in Workers :
            (wctx'[w] /\ ~wctx[w]) => (wpc[w] \in {"loop", "cmd"} /\ wpc'[w] = wpc[w])]_vars
    /\ [][\A w \in Workers :
            (wctx[w] /\ wpc'[w] # "idle") => wctx'[w]]_vars

\* Two requests were in the queue together when a third found it full; the
\* single worker took the first, whose deadline passed (its TIMEOUT result
\* is on the channel), and then the second, which had waited all that time:
\* both its commands have run and its own deadline has not passed.
C28_Witness ==
    /\ Workers = {1}
    /\ Len(enqOrder) = 2
    /\ \E r \in Reqs : dpc[r] = "full"
    /\ Len(results) = 1
    /\ results[1].Request = enqOrder[1]
    /\ results[1].Status = StatusTimeout
    /\ wreq[1] = enqOrder[2]
    /\ ~wctx[1]
    /\ wexit[1] = <<0, 0>>
    /\ result[1].Status = StatusSuccess

\* The deployment commands of worker w's request that have returned.
CommandsRun(w) == Cardinality({i \in DOMAIN wout[w] : wout[w][i].index > 0})

\* C29: in the result of every execution outside dry-run that has left the
\* command pipeline, whatever its status, the output starts with the entries
\* (index, command) of the deployment commands that were run, in order.
C29_OutputOfRunCommandsKept ==
    \A w \in Workers :
        (/\ wpc[w] \in {"release", "publish"}
         /\ wreq[w] \in ran
         /\ ~cfg.DryRun)
        => LET n == CommandsRun(w) IN
           /\ Len(result[w].Output) >= n
           /\ \A i \in 1..n :
                 result[w].Output[i] = [index |-> i, command |-> req[wreq[w]].Commands[i]]

\* The requests whose application has a command entry without a command.
WithoutCommand(r) ==
    /\ dpc[r] # "new"
    /\ appOf(r) \in DOMAIN cfg.Commands
    /\ cfg.Commands[appOf(r)] \in {CmdBlank, EmptyStr}

\* C30: a request whose application's command entry is empty or only "&&"
\* and blanks is admitted whenever the application is unlocked and the queue
\* has room, with an empty command list; no subprocess, deployment command
\* or rollback, is ever started for it, and outside dry-run a worker that
\* acquired its lock leaves the pipeline with SUCCESS, empty output, no
\* error and exit code zero, whether or not the deadline has passed.
C30_EmptyCommandList ==
    /\ [][\A r \in Reqs :
            (dpc[r] = "checked" /\ dpc'[r] # "checked" /\ WithoutCommand(r))
            => /\ dpc'[r] = IF Len(queue) < QueueCap THEN "ok" ELSE "full"
               /\ req'[r].Commands = <<>>]_vars
    /\ [](\A r \in Reqs :
            (WithoutCommand(r) /\ dpc[r] = "ok")
            => /\ req[r].Commands = <<>>
               /\ r \notin executed)
    /\ [](\A w \in Workers :
            (wreq[w] # 0 /\ WithoutCommand(wreq[w]))
            => /\ wstarted[w] = <<>>
               /\ wpc[w] \notin {"cmd", "rollback"}
               /\ (wpc[w] \in {"release", "publish"} /\ wreq[w] \in ran /\ ~cfg.DryRun)
                  => result[w] = [Request |-> wreq[w], Status |-> StatusSuccess,
                                  Output |-> <<>>, Error |-> <<>>, ExitCode |-> 0])

\* Outside dry-run, the request of an application whose command entry is
\* " && " and which has a rollback entry has its SUCCESS result with empty
\* output about to be sent, nothing having been started.
C30_Witness ==
    \E w \in Workers :
        /\ wpc[w] = "publish"
        /\ ~cfg.DryRun
        /\ wreq[w] \in ran
        /\ WithoutCommand(wreq[w])
        /\ cfg.Commands[appOf(wreq[w])] = CmdBlank
        /\ appOf(wreq[w]) \in DOMAIN cfg.RollbackCommands
        /\ result[w].Status = StatusSuccess
        /\ result[w].Output = <<>>
        /\ wstarted[w] = <<>>

\* C31: a worker that is in its command loop, runs a command or runs the
\* rollback has its application's lock, recorded under its request's id, and
\* no other worker runs the pipeline of the same application; the entry is
\* removed only by the worker that has left the pipeline, the rollback
\* included, and a request enters the pipeline only when no other request
\* of its application is in it.
C31_LockHeldThroughRollback ==
    /\ [](\A w \in Workers :
            wpc[w] \in InPipeline
            => /\ appOf(wreq[w]) \in DOMAIN locks
               /\ locks[appOf(wreq[w])].RequestID = req[wreq[w]].ID
               /\ \A w2 \in Workers :
                     (w2 # w /\ wpc[w2] \in InPipeline)
                     => appOf(wreq[w2]) # appOf(wreq[w]))
    /\ [][\A a \in DOMAIN locks :
            a \notin DOMAIN locks'
            => \E w \in Workers :
                  /\ wpc[w] = "release"
                  /\ wpc'[w] = "publish"
                  /\ appOf(wreq[w]) = a]_vars
    /\ [][\A w \in Workers :
            (wpc[w] = "acquire" /\ wpc'[w] \in InPipeline)
            => \A w2 \in Workers :
                  wpc[w2] \in InPipeline \cup {"release"}
                  => appOf(wreq[w2]) # appOf(wreq[w])]_vars

\* A worker's rollback has returned and it still has the lock, while the
\* request of the same application that another worker dequeued was refused
\* the lock.
C31_Witness ==
    \E w1, w2 \in Workers :
        /\ wpc[w1] = "release"
        /\ RollbackMark \in Range(wstarted[w1])
        /\ Len(wexit[w1]) = Len(wstarted[w1])
        /\ appOf(wreq[w1]) \in DOMAIN locks
        /\ wpc[w2] = "publish"
        /\ appOf(wreq[w2]) = appOf(wreq[w1])
        /\ result[w2].Status = StatusFailed
        /\ wreq[w2] \notin ran

\* C32: when a worker hands a result to the send on the result channel,
\* every entry of the lock table belongs to a request that another worker is
\* executing; so for a request whose result has been handed over (and can be
\* received by the consumer) no worker has the request, and an entry of the
\* table that records its id is the entry of another request, which can only
\* be when the two ids were generated from the same clock value.
C32_ResultAfterRelease ==
    /\ [][(\E r \in Reqs : handed'[r] # handed[r])
           => \A a \in DOMAIN locks :
                 \E w \in HoldingWorkers :
                    /\ appOf(wreq[w]) = a
                    /\ locks[a].RequestID = req[wreq[w]].ID]_vars
    /\ [](\A r \in Reqs :
            (handed[r] > 0 \/ r \in {results[i].Request : i \in DOMAIN results})
            => /\ \A w \in Workers : wreq[w] # r
               /\ \A a \in DOMAIN locks :
                     locks[a].RequestID = req[r].ID
                     => /\ env.coarse
                        /\ \E w \in HoldingWorkers :
                              /\ appOf(wreq[w]) = a
                              /\ req[wreq[w]].ID = req[r].ID)

\* The FAILED result of a request that ran a command is on the result
\* channel, and the lock of its application is already held by the next
\* request of that application.
C32_Witness ==
    \E i \in DOMAIN results, w \in Workers :
        /\ results[i].Request \in executed
        /\ results[i].Status = StatusFailed
        /\ wpc[w] = "cmd"
        /\ appOf(wreq[w]) = appOf(results[i].Request)
        /\ locks[appOf(wreq[w])].RequestID = req[wreq[w]].ID
        /\ req[wreq[w]].ID # req[results[i].Request].ID

\* C33: the lock table holds exactly the applications of the requests that
\* workers are executing after a successful acquisition, each under an entry
\* with the application name and the request's id.  The table changes only
\* when a worker's acquisition adds the entry of its own request and when
\* the worker that holds an entry removes that entry and no other on its
\* return; the table is empty when every worker is idle.
C33_LockTableExact ==
    /\ [](/\ DOMAIN locks = {appOf(wreq[w]) : w \in HoldingWorkers}
           /\ \A w \in HoldingWorkers :
                 locks[appOf(wreq[w])] =
                    [AppName |-> appOf(wreq[w]), RequestID |-> req[wreq[w]].ID])
    /\ []((\A w \in Workers : wpc[w] = "idle") => DOMAIN locks = {})
    /\ [][\A w \in Workers :
            (wpc[w] \in Holding /\ wpc'[w] \notin Holding)
            => /\ wpc[w] = "release"
               /\ DOMAIN locks' = DOMAIN locks \ {appOf(wreq[w])}
               /\ \A a \in DOMAIN locks' : locks'[a] = locks[a]]_vars
    /\ [][\A w \in Workers :
            (wpc[w] \notin Holding /\ wpc'[w] \in Holding)
            => /\ wpc[w] = "acquire"
               /\ appOf(wreq[w]) \notin DOMAIN locks
               /\ DOMAIN locks' = DOMAIN locks \cup {appOf(wreq[w])}
               /\ \A a \in DOMAIN locks : locks'[a] = locks[a]]_vars
    /\ [][locks' # locks
           => \E w \in Workers : (wpc[w] \in Holding) # (wpc'[w] \in Holding)]_vars

\* Two workers held the locks of two applications; one has returned and
\* removed its entry, and the entry of the other, still executing, is the
\* only one in the table.
C33_Witness ==
    \E w1, w2 \in Workers :
        /\ wpc[w1] = "publish"
        /\ wreq[w1] \in ran
        /\ wpc[w2] = "cmd"
        /\ appOf(wreq[w1]) # appOf(wreq[w2])
        /\ DOMAIN locks = {appOf(wreq[w2])}
        /\ wreq[w1] > wreq[w2]

\* The commands of the entries and of the default templates for application
\* b, written out.
CommandsOfEntry(entry) ==
    IF entry = CmdXY THEN << <<"x">>, <<"y">> >>
    ELSE IF entry = CmdDefault THEN << <<"z", " ", "a", "p", "p", "n", "a", "m", "e">> >>
    ELSE <<>>

CommandsOfTemplateForB(template) ==
    IF template = CmdDefault THEN << <<"z", " ", "b">> >>
    ELSE << <<"z", " ", "b">>, <<"w">>, <<"v">> >>

\* C34: when the command mapping has an entry for the application,
\* prepareCommands returns without error the commands of that entry,
\* whatever the default template is (and without replacing 'appname' in
\* them); the default template is used, and its emptiness is an error, only
\* for an application without an entry.
C34_EntryTakesPrecedence ==
    (call.fn = "prepareCommands" /\ call.done /\ DOMAIN cfg.Commands # {})
    => IF AppNameOf[call.arg] \in DOMAIN cfg.Commands
       THEN /\ ~call.ret.err
            /\ call.ret.Commands = CommandsOfEntry(cfg.Commands[AppNameOf[call.arg]])
       ELSE /\ call.ret.err <=> cfg.DefaultCommands = EmptyStr
            /\ call.ret.err => call.ret.Commands = <<>>
            /\ ~call.ret.err
               => call.ret.Commands = CommandsOfTemplateForB(cfg.DefaultCommands)

\* prepareCommands has returned ['x', 'y'] for application a, whose entry is
\* 'x && y', under the default template 'z appname&&w && v'.
C34_Witness ==
    /\ call.fn = "prepareCommands"
    /\ call.done
    /\ call.arg = RepoA
    /\ DOMAIN cfg.Commands = {AppA}
    /\ cfg.Commands[AppA] = CmdXY
    /\ cfg.DefaultCommands = CmdThree
    /\ call.ret.Commands = << <<"x">>, <<"y">> >>

\* Does the string s contain the string sep
Contains(s, sep) == \E i \in 1..Len(s) : MatchAt(s, i, sep)

\* The string s without its leading and trailing blanks, by the positions
\* of its first and last character that is not a blank.
Stripped(s) ==
    LET inked == {i \in 1..Len(s) : s[i] # " "} IN
    IF inked = {} THEN <<>>
    ELSE SubSeq(s, CHOOSE i \in inked : \A j \in inked : i <= j,
                   CHOOSE i \in inked : \A j \in inked : j <= i)

\* The positions of the '&&' at which a scan from the left cuts the string:
\* a '&&' at position i cuts unless a cut at i - 1 has used its first '&'.
RECURSIVE IsCut(_, _)
IsCut(s, i) ==
    /\ i >= 1
    /\ MatchAt(s, i, AndAnd)
    /\ ~IsCut(s, i - 1)

Cuts(s) == {i \in 1..Len(s) : IsCut(s, i)}

\* The piece of s that starts at position from and ends before the next cut.
PieceFrom(s, from) ==
    LET later == {i \in Cuts(s) : i >= from} IN
    IF later = {} THEN SubSeq(s, from, Len(s))
    ELSE SubSeq(s, from, (CHOOSE i \in later : \A j \in later : i <= j) - 1)

\* The positions at which the pieces of s start, and those whose piece is
\* not blank.
PieceStarts(s) == {1} \cup {i + 2 : i \in Cuts(s)}
InkedStarts(s) == {i \in PieceStarts(s) : Stripped(PieceFrom(s, i)) # <<>>}

\* C35: parseCommands returns, in the order of their positions in the
\* string, the pieces between the '&&' separators, each without its leading
\* and trailing blanks, the blank pieces left out: no command is empty,
\* starts or ends with a blank, or contains '&&', and a string without '&&'
\* gives at most one command, whatever '||', ';' and single '&' it holds.
C35_SplitOnAndAnd ==
    (call.fn = "parseCommands" /\ call.done)
    => LET s == call.arg
           cs == call.ret
           starts == InkedStarts(s) IN
       /\ Len(cs) = Cardinality(starts)
       /\ \A k \in DOMAIN cs :
             /\ \E i \in starts :
                   /\ Cardinality({j \in starts : j <= i}) = k
                   /\ cs[k] = Stripped(PieceFrom(s, i))
             /\ cs[k] # <<>>
             /\ cs[k][1] # " "
             /\ cs[k][Len(cs[k])] # " "
             /\ ~Contains(cs[k], AndAnd)
       /\ ~Contains(s, AndAnd)
          => cs = IF Stripped(s) = <<>> THEN <<>> ELSE <<Stripped(s)>>

\* parseCommands has returned the one command 'x||x;' for 'x||x;'.
C35_Witness ==
    /\ call.fn = "parseCommands"
    /\ call.done
    /\ call.arg = <<"x", "|", "|", "x", ";">>
    /\ call.ret = << <<"x", "|", "|", "x", ";">> >>

\* C36: any two requests that Deploy admitted, each with an id generated by
\* Deploy, have different ids.
C36_GeneratedIdsDistinct ==
    \A r1, r2 \in Reqs :
        (r1 # r2 /\ dpc[r1] = "ok" /\ dpc[r2] = "ok") => req[r1].ID # req[r2].ID

\* C37: in every result executeDeployment returns, the end time is not
\* earlier than the start time and the duration is the end time minus the
\* start time.
C37_DurationIsEndMinusStart ==
    \A w \in Workers :
        wpc[w] = "publish"
        => /\ wtime[w].EndTime >= wtime[w].StartTime
           /\ wtime[w].Duration = wtime[w].EndTime - wtime[w].StartTime

====
